---- MODULE Spec2Model ----
(***************************************************************************)
(* A model of the poll lifecycle engine of the-all-thing-project backend:  *)
(* the vote admission pipeline (app/publicRoutes.py, app/abuse.py), the    *)
(* close and snapshot engine (app/closeService.py, app/snapshotService.py),*)
(* the rollover engine (app/rollover.py) and the administrative close and  *)
(* replace operations (app/adminRoutes.py).                                *)
(*                                                                         *)
(* The relational store runs at PostgreSQL's READ COMMITTED level: a       *)
(* handler is cut into steps at its awaits, a transaction's writes become  *)
(* visible to the others at its commit, and an INSERT that meets a         *)
(* uniqueness conflict with an uncommitted row waits for that row's        *)
(* transaction to end.                                                     *)
(***************************************************************************)
EXTENDS Integers, Sequences, FiniteSets, TLC

\* ------------------------------------------------------------- bounds
\* submitVote calls made in one behaviour
MaxRequests == 2
\* distinct voter identities (cookies) and client addresses that calls carry
MaxVoters == 2
MaxIps == 2
\* submitVote calls that run alongside the close engine in one behaviour
MaxLateVotes == 1
\* the calendar: instances open on days 1..MaxDate
MaxDate == 2
\* pollInstances rows ever created in one behaviour
MaxInstances == 4
\* getResults calls in one behaviour
MaxReaders == 2
\* transactions that upsert a snapshot of one instance side by side
MaxUpserters == 3
\* ensureInstancesForDate runs side by side
MaxRunners == 2

\* ------------------------------------------------- program constants
\* rateLimit(limit=1): one vote attempt per IP per poll per window
limit == 1
\* upsertResultSnapshot(minVotes=10)
minVotes == 10

None == "None"
\* safeRedisIncr's None (INCR itself never answers below 1)
IncrNone == 0
\* no instance, voter or address yet
NoId == 0

Requests == 1..MaxRequests
Readers == 1..MaxReaders
Upserters == 1..MaxUpserters
Runners == 1..MaxRunners

\* the option ids of an instance (every template of the model has these three
\* options), and their ascending string order
OptionIds == {"A", "B", "C"}
sortedOptionIds == <<"A", "B", "C">>

VARIABLES
    instances,      \* pollInstances rows (committed)
    ballots,        \* voteBallots rows (committed), each with its rankings
    pendingBallots, \* voteBallots rows flushed by a transaction not yet committed
    cacheMode,      \* "up", "down" or "flaky": how the cache answers in this behaviour
    rl,             \* rate-limit counters of the current window, by <<pollId, ipHash>>
    voted,          \* "voted:{pollId}:{identityHash}" keys
    votedIp,        \* "voted:ip:{pollId}:{ipHash}" keys
    idem,           \* "idem:{pollId}:{voterHash}:{key}" keys
    req,            \* the submitVote calls: inputs, position, response
    templates,      \* pollTemplates rows
    plans,          \* pollPlans rows
    snapshots,      \* pollResultSnapshots rows (committed)
    nextId,         \* the next fresh pollInstances id (uuid4 never repeats)
    closer,         \* the running closeAndSnapshot* call: position, locals, result
    tallied,        \* history: <<instance id, ballots counted by the operation that closed it>>
    tallyCall,      \* a call of a results function: position, arguments, returned value
    resultsCache,   \* "results:{pollId}" keys of the cache, each with its payload
    reads,          \* the getResults calls: input, position, locals, response
    upserts,        \* transactions that upsert one snapshot: position, pending rows
    rankings,       \* committed VoteRanking rows
    rollovers       \* ensureInstancesForDate runs side by side: position, new rows

vars == <<instances, ballots, pendingBallots, cacheMode, rl, voted, votedIp, idem, req,
          templates, plans, snapshots, nextId, closer, tallied, tallyCall,
          resultsCache, reads, upserts, rankings, rollovers>>

storeVars == <<instances, ballots, pendingBallots>>
lifeVars == <<templates, plans, snapshots, nextId, closer, tallied>>
cacheVars == <<cacheMode, rl, voted, votedIp, idem>>
tallyVars == <<tallyCall, resultsCache, reads, upserts, rankings, rollovers>>

\* no results function is being called
IdleTally == [pc |-> "idle"]

\* a rollover run not yet begun
NewRun == [pc |-> "new", pollDate |-> NoId, created |-> {}, raised |-> FALSE]

\* a snapshot transaction not yet begun
NewUpsert == [pc |-> "new", pollId |-> NoId, ok |-> FALSE, raised |-> FALSE,
              inserts |-> {}, updates |-> {}, deletes |-> {}]

\* a getResults call not yet made
NewRead == [pc |-> "new", pollId |-> NoId, status |-> None, after |-> {},
            cached |-> FALSE, data |-> [source |-> None], outcome |-> None]

\* ------------------------------------------------------- the store

\* PollInstance row
PollInstance(id, templateId, pollDate, pollType, status) ==
    [id |-> id, templateId |-> templateId, pollDate |-> pollDate,
     pollType |-> pollType, status |-> status]

\* VoteBallot row; its id is the uuid minted by the call that wrote it
VoteBallot(id, instanceId, voterTokenHash, ipHash, firstChoiceOptionId) ==
    [id |-> id, instanceId |-> instanceId, voterTokenHash |-> voterTokenHash,
     ipHash |-> ipHash, firstChoiceOptionId |-> firstChoiceOptionId]

\* the VoteRanking rows of a ballot, ranked from 0
rankingRowsFromZero(ballotId, rankedChoices) ==
    {[ballotId |-> ballotId, rank |-> idx - 1, optionId |-> rankedChoices[idx]] :
        idx \in 1..Len(rankedChoices)}

\* for idx, optionId in enumerate(rankedChoices, start=1):
\*     db.add(VoteRanking(ballotId=ballotId, rank=idx, optionId=optionId))
rankingRows(ballotId, rankedChoices) ==
    {[ballotId |-> ballotId, rank |-> idx, optionId |-> rankedChoices[idx]] :
        idx \in 1..Len(rankedChoices)}

\* select(PollInstance).where(PollInstance.id == pollId): the rows found
instanceById(pollId) == {i \in instances : i.id = pollId}

\* uq_voteBallots_instance_voter, disabled: no row ever conflicts
uqVoteBallotsOff(rows, instanceId, voterTokenHash) == FALSE

\* uq_voteBallots_instance_voter: a row of `rows` holds the same
\* (instanceId, voterTokenHash)
uq_voteBallots_instance_voter(rows, instanceId, voterTokenHash) ==
    \E b \in rows : b.instanceId = instanceId /\ b.voterTokenHash = voterTokenHash

\* ------------------------------------------------- the cache (abuse.py)

\* Whether one cache round trip is answered: always when the cache is "up",
\* never when it is "down", and either way, call by call, when it is "flaky"
\* (it fails and recovers between any two calls).
Answers == IF cacheMode = "up" THEN {TRUE}
           ELSE IF cacheMode = "down" THEN {FALSE} ELSE BOOLEAN

\* safeRedisIncr: the counter after INCR, or None when the call failed
safeRedisIncr(key, up) == IF up THEN rl[key] + 1 ELSE IncrNone

\* a rate limit that lets every call through
rateLimitUnlimited(count) == TRUE

\* rateLimit's answer for an INCR result: fail open on None
rateLimitAllowed(count) == IF count = IncrNone THEN TRUE ELSE count <= limit

\* hasVoted: safeRedisGet answers None when the call failed
hasVoted(pollId, identityHash, up) == up /\ <<pollId, identityHash>> \in voted

\* hasVotedByIp: safeRedisGet answers None when the call failed
hasVotedByIp(pollId, ipHash, up) == up /\ <<pollId, ipHash>> \in votedIp

\* setIdempotency: SET NX is True when the key was set, and the except
\* branch answers True when the call failed
setIdempotency(key, up) == IF up THEN key \notin idem ELSE TRUE

\* ---------------------------------------------- submitVote, step by step

\* a call without payload.turnstileToken: the verifier is not asked
NoTurnstile == [secretKey |-> FALSE, token |-> FALSE, answer |-> None]

\* a call not yet made; its payload ranks two options of the instance unless
\* the arriving call carries another one
NewRequest == [pc |-> "new", pollId |-> NoId, voterHash |-> NoId, ipHash |-> NoId,
               idempotencyKey |-> None, outcome |-> None, after |-> {},
               rankedChoices |-> <<"A", "B">>, turnstile |-> NoTurnstile]

Respond(r, outcome) ==
    req' = [req EXCEPT ![r].pc = "done", ![r].outcome = outcome]

Goto(r, pc) == req' = [req EXCEPT ![r].pc = pc]

\* identities and addresses already seen, and the next fresh one of each
usedVoters == {req[q].voterHash : q \in {x \in Requests : req[x].pc # "new"}}
usedIps == {req[q].ipHash : q \in {x \in Requests : req[x].pc # "new"}}
voterChoices == {v \in 1..MaxVoters : v \in usedVoters \/ v = Cardinality(usedVoters) + 1}
ipChoices == {a \in 1..MaxIps : a \in usedIps \/ a = Cardinality(usedIps) + 1}

\* 1) identity + metadata: the call arrives with a valid cookie of an earlier
\* identity or has a new one minted, from a known or a new address, with or
\* without an idempotency key
getVoterIdentityOrSetCookie(r, pollId, v, a, k) ==
    /\ req[r].pc = "new"
    /\ \A q \in Requests : q < r => req[q].pc # "new"
    /\ req' = [req EXCEPT ![r] =
                 [pc |-> "rateLimit", pollId |-> pollId, voterHash |-> v, ipHash |-> a,
                  idempotencyKey |-> k, outcome |-> None,
                  after |-> {q \in Requests : req[q].pc = "done"},
                  rankedChoices |-> NewRequest.rankedChoices,
                  turnstile |-> NewRequest.turnstile]]
    /\ UNCHANGED <<tallyVars, lifeVars, storeVars, cacheVars>>

\* 3) rate limiting
submitVote_rateLimit(r) ==
    /\ req[r].pc = "rateLimit"
    /\ \E up \in Answers :
       LET key == <<req[r].pollId, req[r].ipHash>>
           count == safeRedisIncr(key, up)
       IN /\ rl' = IF count = IncrNone THEN rl ELSE [rl EXCEPT ![key] = count]
          /\ IF rateLimitAllowed(count)
                THEN Goto(r, "idempotency")
                ELSE Respond(r, "429 Too many attempts")
    /\ UNCHANGED <<tallyVars, lifeVars, storeVars, cacheMode, voted, votedIp, idem>>

\* 4) idempotency
submitVote_idempotency(r) ==
    /\ req[r].pc = "idempotency"
    /\ \E up \in Answers :
       LET key == <<req[r].pollId, req[r].voterHash, req[r].idempotencyKey>>
       IN IF req[r].idempotencyKey = None
             THEN /\ Goto(r, "hasVoted")
                  /\ UNCHANGED idem
             ELSE IF setIdempotency(key, up)
                     THEN /\ idem' = IF up THEN idem \cup {key} ELSE idem
                          /\ Goto(r, "hasVoted")
                     ELSE /\ UNCHANGED idem
                          /\ Respond(r, "ok deduped")
    /\ UNCHANGED <<tallyVars, lifeVars, storeVars, cacheMode, rl, voted, votedIp>>

\* 5) fast-path already voted, by cookie
submitVote_hasVoted(r) ==
    /\ req[r].pc = "hasVoted"
    /\ \E up \in Answers :
       IF hasVoted(req[r].pollId, req[r].voterHash, up)
          THEN Respond(r, "409 Already voted")
          ELSE Goto(r, "hasVotedByIp")
    /\ UNCHANGED <<tallyVars, lifeVars, storeVars, cacheVars>>

\* 5) fast-path already voted, by IP
submitVote_hasVotedByIp(r) ==
    /\ req[r].pc = "hasVotedByIp"
    /\ \E up \in Answers :
       IF hasVotedByIp(req[r].pollId, req[r].ipHash, up)
          THEN Respond(r, "409 Already voted from this network")
          ELSE Goto(r, "load")
    /\ UNCHANGED <<tallyVars, lifeVars, storeVars, cacheVars>>

\* instance.maxRank, copied from the template: set on template t1, not set on
\* the others
maxRankOf(instance) == IF instance.templateId = "t1" THEN 2 ELSE IncrNone

\* the validation of step 6 without the maxRank test
validateChoicesAnyLength(rankedChoices, instance) ==
    IF \E i, j \in 1..Len(rankedChoices) : i # j /\ rankedChoices[i] = rankedChoices[j]
    THEN "422 Duplicate optionIds in rankedChoices"
    ELSE IF \E i \in 1..Len(rankedChoices) : rankedChoices[i] \notin OptionIds
    THEN "422 Invalid optionId for this poll"
    ELSE IF instance.pollType = "SINGLE"
    THEN IF Len(rankedChoices) # 1
         THEN "422 SINGLE polls require exactly 1 choice" ELSE None
    ELSE IF instance.pollType = "RANKED"
    THEN IF Len(rankedChoices) < 2
         THEN "422 RANKED polls require at least 2 ranked choices"
         ELSE None
    ELSE "500 Unknown pollType"

\* 6) validate payload according to poll type: the detail of the HTTPException
\* raised, or None when the payload passes
validateChoices(rankedChoices, instance) ==
    IF \E i, j \in 1..Len(rankedChoices) : i # j /\ rankedChoices[i] = rankedChoices[j]
    THEN "422 Duplicate optionIds in rankedChoices"
    ELSE IF \E i \in 1..Len(rankedChoices) : rankedChoices[i] \notin OptionIds
    THEN "422 Invalid optionId for this poll"
    ELSE IF instance.pollType = "SINGLE"
    THEN IF Len(rankedChoices) # 1
         THEN "422 SINGLE polls require exactly 1 choice" ELSE None
    ELSE IF instance.pollType = "RANKED"
    THEN IF maxRankOf(instance) # IncrNone /\ Len(rankedChoices) > maxRankOf(instance)
         THEN "422 Too many ranked choices for this poll"
         ELSE IF Len(rankedChoices) < 2
         THEN "422 RANKED polls require at least 2 ranked choices"
         ELSE None
    ELSE "500 Unknown pollType"

\* step 6 without its two tests: every call goes on to write its ballot
submitVote_loadUnchecked(r) ==
    /\ req[r].pc = "load"
    /\ Goto(r, "flush")
    /\ UNCHANGED <<tallyVars, lifeVars, storeVars, cacheVars>>

\* 6) load poll instance + options, and validate
submitVote_load(r) ==
    /\ req[r].pc = "load"
    /\ LET found == instanceById(req[r].pollId)
       IN IF found = {}
             THEN Respond(r, "404 Poll not found")
             ELSE IF \E i \in found : i.status # "OPEN"
                     THEN Respond(r, "409 Poll is closed")
                     ELSE LET detail == validateChoices(req[r].rankedChoices,
                                                        CHOOSE i \in found : TRUE)
                          IN IF detail # None THEN Respond(r, detail)
                                              ELSE Goto(r, "flush")
    /\ UNCHANGED <<tallyVars, lifeVars, storeVars, cacheVars>>

\* 7) db.add(ballot); await db.flush(): the INSERT of the ballot row. It
\* raises IntegrityError, outside the handler's try, when a committed row
\* holds the same (instanceId, voterTokenHash) or the instance row is gone,
\* and it waits while an uncommitted row of another call holds the pair.
submitVote_flush(r) ==
    /\ req[r].pc = "flush"
    /\ ~uq_voteBallots_instance_voter(pendingBallots, req[r].pollId, req[r].voterHash)
    /\ IF \/ uq_voteBallots_instance_voter(ballots, req[r].pollId, req[r].voterHash)
          \/ instanceById(req[r].pollId) = {}
          THEN /\ Respond(r, "500 IntegrityError")
               /\ UNCHANGED pendingBallots
          ELSE /\ pendingBallots' = pendingBallots \cup
                      {VoteBallot(r, req[r].pollId, req[r].voterHash, req[r].ipHash,
                                  IF Len(req[r].rankedChoices) > 0
                                     THEN req[r].rankedChoices[1] ELSE None)}
               /\ Goto(r, "commit")
    /\ UNCHANGED <<tallyVars, lifeVars, instances, ballots, cacheVars>>

\* 7) the rankings are added and the transaction commits: the ballot row
\* and its ranking rows become visible together
submitVote_commit(r) ==
    /\ req[r].pc = "commit"
    /\ LET mine == {b \in pendingBallots : b.id = r}
       IN /\ ballots' = ballots \cup mine
          /\ pendingBallots' = pendingBallots \ mine
          /\ rankings' = rankings \cup
                 UNION {rankingRows(b.id, req[r].rankedChoices) : b \in mine}
    /\ Goto(r, "markVoted")
    /\ UNCHANGED <<tallyCall, resultsCache, reads, upserts, rollovers, lifeVars, instances, cacheVars>>

\* 8) mark voted in Redis, by identity
submitVote_markVoted(r) ==
    /\ req[r].pc = "markVoted"
    /\ \E up \in Answers :
         voted' = IF up THEN voted \cup {<<req[r].pollId, req[r].voterHash>>} ELSE voted
    /\ Goto(r, "markVotedByIp")
    /\ UNCHANGED <<tallyVars, lifeVars, storeVars, cacheMode, rl, votedIp, idem>>

\* 8) mark voted in Redis, by IP
submitVote_markVotedByIp(r) ==
    /\ req[r].pc = "markVotedByIp"
    /\ \E up \in Answers :
         votedIp' = IF up THEN votedIp \cup {<<req[r].pollId, req[r].ipHash>>} ELSE votedIp
    /\ Goto(r, "bust")
    /\ UNCHANGED <<tallyVars, lifeVars, storeVars, cacheMode, rl, voted, idem>>

\* 9) bust results cache: redisClient.delete is called bare, so a cache that
\* is down raises out of the handler after the ballot was committed
submitVote_bust(r) ==
    /\ req[r].pc = "bust"
    /\ \E up \in Answers :
         IF up THEN /\ resultsCache' = {e \in resultsCache : e.pollId # req[r].pollId}
                    /\ Respond(r, "ok")
               ELSE /\ UNCHANGED resultsCache
                    /\ Respond(r, "500 ConnectionError")
    /\ UNCHANGED <<tallyCall, upserts, rankings, rollovers, reads, lifeVars, storeVars, cacheVars>>

\* ------------------------------------------------ the cache's environment

\* time.time() // windowSeconds moves on: the counters of the new bucket start at 0
NextWindow ==
    /\ rl' = [key \in DOMAIN rl |-> 0]
    /\ UNCHANGED <<tallyVars, lifeVars, storeVars, cacheMode, voted, votedIp, idem, req>>

\* the idempotency keys' 60 s run out
ExpireIdempotency ==
    /\ idem # {}
    /\ idem' = {}
    /\ UNCHANGED <<tallyVars, lifeVars, storeVars, cacheMode, rl, voted, votedIp, req>>

\* the voted markers' 24 h run out
ExpireVoted ==
    /\ voted # {} \/ votedIp # {}
    /\ voted' = {} /\ votedIp' = {}
    /\ UNCHANGED <<tallyVars, lifeVars, storeVars, cacheMode, rl, idem, req>>

\* ----------------------------------------- templates, plans and rollover

\* PollTemplate row
PollTemplate(id, pollType, isActive) ==
    [id |-> id, pollType |-> pollType, isActive |-> isActive]

\* PollPlan row
PollPlan(templateId, pollDate, isEnabled) ==
    [templateId |-> templateId, pollDate |-> pollDate, isEnabled |-> isEnabled]

Dates == 1..MaxDate

\* the order in which the templates come back from the store
templateOrder == <<"t1", "t2">>
position(templateId) == CHOOSE k \in 1..Len(templateOrder) : templateOrder[k] = templateId

\* the first query, without its isActive filter
allTemplates == templates

\* select(PollTemplate).where(PollTemplate.isActive == True)
activeTemplates == {t \in templates : t.isActive}

\* existingTemplateIds: the active templates that have an instance for the date
existingTemplateIds(insts, pollDate) ==
    {i.templateId : i \in {x \in insts : /\ x.pollDate = pollDate
                                         /\ x.templateId \in {t.id : t \in activeTemplates}}}

\* the skip test, without its look at the existing instances
neverExisting(t, insts, pollDate) == FALSE

\* if t.id in existingTemplateIds: continue
alreadyExisting(t, insts, pollDate) == t.id \in existingTemplateIds(insts, pollDate)

\* the plan test, without the date filter of the plans query
planDisabledAnyDate(t, pollDate) ==
    \E p \in plans : p.templateId = t.id /\ ~p.isEnabled

\* planByTemplateId.get(t.id); if plan and plan.isEnabled is False: continue
planDisabled(t, pollDate) ==
    \E p \in plans : p.templateId = t.id /\ p.pollDate = pollDate /\ ~p.isEnabled

\* the constraint dropped, as between the revisions c3d4e5f6a7b8 and 126b12d82727
uqInstancesOff(i, j) == FALSE

\* uq_pollInstances_template_date
uq_pollInstances_template_date(i, j) ==
    i.templateId = j.templateId /\ i.pollDate = j.pollDate

\* ensureInstancesForDate on the instances `insts`, minting ids from nid on:
\* the instances after the call, its createdCount, and whether its commit
\* raised on the (templateId, pollDate) constraint
ensureInstances(insts, nid, pollDate) ==
    LET toCreate == {t \in activeTemplates :
                        ~alreadyExisting(t, insts, pollDate) /\ ~planDisabled(t, pollDate)}
        before(t) == Cardinality({u \in toCreate : position(u.id) < position(t.id)})
        created == {PollInstance(nid + before(t), t.id, pollDate, t.pollType, "OPEN") :
                       t \in toCreate}
    IN IF \E c \in created, i \in insts : uq_pollInstances_template_date(i, c)
          THEN [raised |-> TRUE, createdCount |-> 0, instances |-> insts, nextId |-> nid]
          ELSE [raised |-> FALSE, createdCount |-> Cardinality(created),
                instances |-> insts \cup created, nextId |-> nid + Cardinality(created)]

\* the rollover of one date (POST /admin/rollover, rolloverCli)
ensureInstancesForDate(pollDate) ==
    LET res == ensureInstances(instances, nextId, pollDate)
    IN /\ res.nextId <= MaxInstances + 1
       /\ instances' = res.instances
       /\ nextId' = res.nextId
       /\ UNCHANGED <<tallyVars, ballots, pendingBallots, cacheVars, req,
                      templates, plans, snapshots, closer, tallied>>

\* PATCH /admin/templates/{templateId}/active
setTemplateActive(templateId, isActive) ==
    /\ templates' = {IF t.id = templateId THEN [t EXCEPT !.isActive = isActive] ELSE t :
                        t \in templates}
    /\ UNCHANGED <<tallyVars, storeVars, cacheVars, req, plans, snapshots, nextId, closer, tallied>>

\* PUT /admin/templates/{templateId}/plan: insert the plan of the date or
\* set its isEnabled
upsertPlan(templateId, pollDate, isEnabled) ==
    /\ plans' = {p \in plans : ~(p.templateId = templateId /\ p.pollDate = pollDate)}
                   \cup {PollPlan(templateId, pollDate, isEnabled)}
    /\ UNCHANGED <<tallyVars, storeVars, cacheVars, req, templates, snapshots, nextId, closer, tallied>>

\* ------------------------------------------------ results and snapshots

\* a totalVotes / totalBallots that the results payload does not carry (None)
NoCount == -1

\* PollResultSnapshot row: the instance, the status written into resultsJson
\* and the two convenience counts
PollResultSnapshot(id, instanceId, status, totalVotes, totalBallots) ==
    [id |-> id, instanceId |-> instanceId, status |-> status,
     totalVotes |-> totalVotes, totalBallots |-> totalBallots]

\* the committed ballots of an instance
ballotsOf(pollId) == {b \in ballots : b.instanceId = pollId}

\* buildResults + extractSnapshotFields: a SINGLE payload carries totalVotes
\* and no totalBallots, a RANKED payload totalBallots and no totalVotes
buildResults(pollId) ==
    LET found == instanceById(pollId)
    IN IF found = {}
          THEN [found |-> FALSE, status |-> None, totalVotes |-> NoCount,
                totalBallots |-> NoCount]
          ELSE LET instance == CHOOSE i \in found : TRUE
                   n == Cardinality(ballotsOf(pollId))
               IN IF instance.pollType = "SINGLE"
                     THEN [found |-> TRUE, status |-> instance.status,
                           totalVotes |-> n, totalBallots |-> NoCount]
                     ELSE [found |-> TRUE, status |-> instance.status,
                           totalVotes |-> NoCount, totalBallots |-> n]

\* the threshold test, off by one
insufficientVotesInclusive(totalBallots) == totalBallots <= minVotes

\* if fields["totalBallots"] < minVotes
insufficientVotes(totalBallots) == totalBallots < minVotes

\* upsertResultSnapshot(db, pollId), run by `who`: whether it raised (None <
\* minVotes is a TypeError), its return value, the ballots it counted, and
\* the snapshot rows its transaction deletes and writes at commit
upsertResultSnapshot(pollId, who) ==
    LET results == buildResults(pollId)
        existing == {s \in snapshots : s.instanceId = pollId}
        nothing == [raised |-> FALSE, ok |-> FALSE, counted |-> NoCount,
                    deletes |-> {}, writes |-> {}]
    IN IF ~results.found THEN nothing
       ELSE IF results.totalBallots = NoCount THEN [nothing EXCEPT !.raised = TRUE]
       ELSE IF insufficientVotes(results.totalBallots)
               THEN [nothing EXCEPT !.counted = results.totalBallots, !.deletes = existing]
       ELSE IF existing = {}
               THEN [nothing EXCEPT !.ok = TRUE, !.counted = results.totalBallots,
                        !.writes = {PollResultSnapshot(<<pollId, who>>, pollId, results.status,
                                        results.totalVotes, results.totalBallots)}]
       ELSE [nothing EXCEPT !.ok = TRUE, !.counted = results.totalBallots,
                !.deletes = existing,
                !.writes = {[s EXCEPT !.status = results.status,
                                      !.totalVotes = results.totalVotes,
                                      !.totalBallots = results.totalBallots] : s \in existing}]

\* ------------------------------------- the close and snapshot engine

ForDate == "closeAndSnapshotForDate"
BeforeDate == "closeAndSnapshotBeforeDate"

IdleCloser ==
    [pc |-> "idle", job |-> None, fn |-> None, date |-> NoId, easternToday |-> NoId,
     selected |-> {}, todo |-> {}, counted |-> {}, deletes |-> {}, writes |-> {},
     snapCount |-> 0, closedCount |-> 0, raised |-> FALSE]

\* .where(PollInstance.pollDate == pollDate), or < cutoffDate for the sweep
matchesDate(fn, pollDate, d) == IF fn = ForDate THEN pollDate = d ELSE pollDate < d

\* the OPEN instances that the call's WHERE clauses match
openMatching(fn, d) ==
    {i \in instances : matchesDate(fn, i.pollDate, d) /\ i.status = "OPEN"}

\* async with db.begin(): the SELECT of the OPEN instances
closeAndSnapshot_select(job, fn, d, easternToday) ==
    closer' = [IdleCloser EXCEPT !.pc = "snap", !.job = job, !.fn = fn, !.date = d,
                                 !.easternToday = easternToday,
                                 !.selected = {i.id : i \in openMatching(fn, d)},
                                 !.todo = {i.id : i \in openMatching(fn, d)}]

\* the transaction ended: its locals are gone, the call is about to return
\* its counts or to raise
ended(c) ==
    [c EXCEPT !.pc = "return", !.selected = {}, !.todo = {}, !.counted = {},
              !.deletes = {}, !.writes = {}]

\* snapshot rows of these instances are held by the close transaction
\* (inserted, updated or deleted and not committed): other writers wait
heldByCloser(pollId) ==
    \E s \in closer.deletes \cup closer.writes : s.instanceId = pollId

\* the days on which the scheduler may run the close job
Days == 1..(MaxDate + 1)

\* runCloseJob: getEasternToday() answers easternToday, and
\* closeAndSnapshotForDate(yesterday) starts
runCloseJob(easternToday) ==
    /\ closer.pc = "idle"
    /\ closeAndSnapshot_select("runCloseJob", ForDate, easternToday - 1, easternToday)
    /\ UNCHANGED <<tallyVars, storeVars, cacheVars, req, templates, plans, snapshots, nextId, tallied>>

\* runCloseJob: closeAndSnapshotBeforeDate(easternToday) starts after r1 returned
runCloseJob_sweep ==
    /\ closer.pc = "return" /\ closer.job = "runCloseJob" /\ closer.fn = ForDate
    /\ ~closer.raised
    /\ closeAndSnapshot_select("runCloseJob", BeforeDate, closer.easternToday,
                               closer.easternToday)
    /\ UNCHANGED <<tallyVars, storeVars, cacheVars, req, templates, plans, snapshots, nextId, tallied>>

\* POST /admin/close?pollDate=d
closePolls(d) ==
    /\ closer.pc = "idle"
    /\ closeAndSnapshot_select("closePolls", ForDate, d, NoId)
    /\ UNCHANGED <<tallyVars, storeVars, cacheVars, req, templates, plans, snapshots, nextId, tallied>>

\* the loop with every upsert committed on its own: an exception keeps what
\* the earlier upserts of the call wrote
closeAndSnapshot_upsertCommitted(pollId) ==
    /\ closer.pc = "snap"
    /\ pollId \in closer.todo
    /\ LET up == upsertResultSnapshot(pollId, "closeService")
       IN /\ closer' =
               IF up.raised
                  THEN [ended(closer) EXCEPT !.raised = TRUE, !.snapCount = 0]
                  ELSE [closer EXCEPT !.todo = @ \ {pollId},
                                      !.counted = @ \cup {<<pollId, up.counted>>},
                                      !.snapCount = IF up.ok THEN @ + 1 ELSE @]
          /\ snapshots' = IF up.raised THEN snapshots
                          ELSE (snapshots \ up.deletes) \cup up.writes
    /\ UNCHANGED <<tallyVars, storeVars, cacheVars, req, templates, plans, nextId, tallied>>

\* for inst in instances: ok = await upsertResultSnapshot(db, inst.id).
\* An exception leaves the `async with`, which rolls the transaction back,
\* and is raised again to the caller: the job ends there.
closeAndSnapshot_upsert(pollId) ==
    /\ closer.pc = "snap"
    /\ pollId \in closer.todo
    /\ LET up == upsertResultSnapshot(pollId, "closeService")
       IN closer' =
            IF up.raised
               THEN [ended(closer) EXCEPT !.raised = TRUE, !.snapCount = 0]
               ELSE [closer EXCEPT !.todo = @ \ {pollId},
                                   !.counted = @ \cup {<<pollId, up.counted>>},
                                   !.deletes = @ \cup up.deletes,
                                   !.writes = @ \cup up.writes,
                                   !.snapCount = IF up.ok THEN @ + 1 ELSE @]
    /\ UNCHANGED <<tallyVars, storeVars, cacheVars, req, templates, plans, snapshots, nextId, tallied>>

\* the loop is left before every selected instance had its upsert
snapshotsDoneEarly(c) == TRUE

\* the for loop over the selected instances has run to its end
snapshotsDone(c) == c.todo = {}

\* the ballots that the closing call counted for the instance, NoCount when
\* it computed no snapshot for it
countedBy(c, pollId) ==
    IF \E x \in c.counted : x[1] = pollId
       THEN (CHOOSE x \in c.counted : x[1] = pollId)[2]
       ELSE NoCount

\* update(PollInstance).where(date).where(status == "OPEN").values(status="CLOSED"),
\* closedCount = rowcount, and the commit at the end of the `async with`
closeAndSnapshot_update ==
    /\ closer.pc = "snap"
    /\ snapshotsDone(closer)
    /\ LET flipped == openMatching(closer.fn, closer.date)
       IN /\ instances' = (instances \ flipped)
                             \cup {[i EXCEPT !.status = "CLOSED"] : i \in flipped}
          /\ snapshots' = (snapshots \ closer.deletes) \cup closer.writes
          /\ tallied' = tallied \cup {<<i.id, countedBy(closer, i.id)>> : i \in flipped}
          /\ closer' = [ended(closer) EXCEPT !.closedCount = Cardinality(flipped)]
    /\ UNCHANGED <<tallyVars, ballots, pendingBallots, cacheVars, req, templates, plans, nextId>>

\* the call returns {pollDate, snapCount, closedCount} or raises to its
\* caller, which is done with it: closePolls answers, runCloseJob prints r1
\* and r2 or dies of the exception
closeAndSnapshot_return ==
    /\ closer.pc = "return"
    /\ closer.job = "runCloseJob" /\ closer.fn = ForDate => closer.raised
    /\ closer' = IdleCloser
    /\ UNCHANGED <<tallyVars, storeVars, cacheVars, req, templates, plans, snapshots, nextId, tallied>>

\* ------------------------------------ administrative close and replace

\* closeInstance's test, switched off
neverClosed(i) == FALSE

\* if instance.status == "CLOSED": raise HTTPException(409, "Instance already closed")
alreadyClosed(i) == i.status = "CLOSED"

\* POST /admin/instances/{instanceId}/close: the response code and the store
\* that the handler leaves
closeInstanceResult(pollId) ==
    LET found == instanceById(pollId)
        same == [code |-> "404", instances |-> instances, snapshots |-> snapshots,
                 tallied |-> tallied]
    IN IF found = {} THEN same
       ELSE IF \E i \in found : alreadyClosed(i) THEN [same EXCEPT !.code = "409"]
       ELSE LET up == upsertResultSnapshot(pollId, "adminRoutes")
            IN IF up.raised THEN [same EXCEPT !.code = "500"]
               ELSE [code |-> "200",
                     instances |-> (instances \ found)
                                      \cup {[i EXCEPT !.status = "CLOSED"] : i \in found},
                     snapshots |-> (snapshots \ up.deletes) \cup up.writes,
                     tallied |-> tallied \cup {<<pollId, up.counted>>}]

closeInstance(pollId) ==
    /\ ~heldByCloser(pollId)
    /\ LET res == closeInstanceResult(pollId)
       IN /\ instances' = res.instances
          /\ snapshots' = res.snapshots
          /\ tallied' = res.tallied
    /\ UNCHANGED <<tallyVars, ballots, pendingBallots, cacheVars, req, templates, plans, nextId, closer>>

\* POST /admin/instances/{instanceId}/snapshot: the interim snapshot of an
\* instance; nothing is committed unless the upsert returned True
createInstanceSnapshot(pollId) ==
    /\ ~heldByCloser(pollId)
    /\ LET up == upsertResultSnapshot(pollId, "adminRoutes")
       IN snapshots' = IF ~up.raised /\ up.ok
                          THEN (snapshots \ up.deletes) \cup up.writes
                          ELSE snapshots
    /\ UNCHANGED <<tallyVars, storeVars, cacheVars, req, templates, plans, nextId, closer, tallied>>

\* POST /admin/instances/{instanceId}/replace: snapshot and close the
\* instance, delete it and create a fresh OPEN one for the same template and
\* date. The delete of the instance removes its options first, which the
\* RESTRICT foreign keys of its ballots and rankings refuse, and waits for a
\* ballot being inserted; the handler's exceptions roll everything back.
replaceInstance(pollId) ==
    /\ ~heldByCloser(pollId)
    /\ ~\E b \in pendingBallots : b.instanceId = pollId
    /\ nextId <= MaxInstances
    /\ LET found == instanceById(pollId)
           up == upsertResultSnapshot(pollId, "adminRoutes")
           ok == /\ found # {}
                 /\ \A i \in found : i.status # "CLOSED"
                 /\ \A i \in found : \E t \in templates : t.id = i.templateId
                 /\ ~up.raised
                 /\ ballotsOf(pollId) = {}
       IN IF ok
             THEN /\ instances' = (instances \ found)
                        \cup {PollInstance(nextId, i.templateId, i.pollDate, i.pollType, "OPEN") :
                                 i \in found}
                  /\ snapshots' = {s \in snapshots : s.instanceId # pollId}
                  /\ nextId' = nextId + 1
             ELSE UNCHANGED <<instances, snapshots, nextId>>
    /\ UNCHANGED <<tallyVars, ballots, pendingBallots, cacheVars, req, templates, plans, closer, tallied>>

\* ------------------------------------------------------ SpecVote

VotePollIds == {1}
IdempotencyKeys == {None, "k1"}

InitVote ==
    /\ instances = {PollInstance(1, "t1", 1, "RANKED", "OPEN")}
    /\ ballots = {}
    /\ pendingBallots = {}
    /\ cacheMode \in {"up", "down", "flaky"}
    /\ rl = [key \in VotePollIds \X (1..MaxIps) |-> 0]
    /\ voted = {}
    /\ votedIp = {}
    /\ idem = {}
    /\ req = [r \in Requests |-> NewRequest]
    /\ templates = {PollTemplate("t1", "RANKED", TRUE)}
    /\ plans = {}
    /\ snapshots = {}
    /\ nextId = 2
    /\ closer = IdleCloser
    /\ tallied = {}
    /\ tallyCall = IdleTally
    /\ resultsCache = {}
    /\ reads = [g \in Readers |-> NewRead]
    /\ upserts = [u \in Upserters |-> NewUpsert]
    /\ rollovers = [k \in Runners |-> NewRun]
    /\ rankings = {}

NextVote ==
    \/ \E r \in Requests, p \in VotePollIds, k \in IdempotencyKeys :
          \E v \in voterChoices, a \in ipChoices : getVoterIdentityOrSetCookie(r, p, v, a, k)
    \/ \E r \in Requests : submitVote_rateLimit(r)
    \/ \E r \in Requests : submitVote_idempotency(r)
    \/ \E r \in Requests : submitVote_hasVoted(r)
    \/ \E r \in Requests : submitVote_hasVotedByIp(r)
    \/ \E r \in Requests : submitVote_load(r)
    \/ \E r \in Requests : submitVote_flush(r)
    \/ \E r \in Requests : submitVote_commit(r)
    \/ \E r \in Requests : submitVote_markVoted(r)
    \/ \E r \in Requests : submitVote_markVotedByIp(r)
    \/ \E r \in Requests : submitVote_bust(r)
    \/ NextWindow
    \/ ExpireIdempotency
    \/ ExpireVoted

SpecVote == InitVote /\ [][NextVote]_vars

\* ------------------------------------------------ claims on SpecVote

Done(r) == req[r].pc = "done"

SamePair(r1, r2) ==
    /\ req[r1].pc # "new" /\ req[r2].pc # "new"
    /\ req[r1].pollId = req[r2].pollId
    /\ req[r1].voterHash = req[r2].voterHash

\* the call got past the cache steps (rate limit, idempotency, fast path)
PassedFastPath(r) ==
    \/ req[r].pc \in {"load", "flush", "commit", "markVoted", "markVotedByIp", "bust"}
    \/ Done(r) /\ req[r].outcome \in {"404 Poll not found", "409 Poll is closed",
                                       "500 IntegrityError", "ok", "500 ConnectionError"}

\* neither call had responded when the other arrived
Concurrent(r1, r2) == r1 \notin req[r2].after /\ r2 \notin req[r1].after

\* r2 is the call that follows r1 for the same (instance, identity), made
\* after r1 responded, and r1 is the first call for that pair
Repeats(r1, r2) ==
    /\ r1 < r2 /\ SamePair(r1, r2) /\ r1 \in req[r2].after
    /\ \A q \in Requests : (q < r2 /\ q # r1) => ~SamePair(q, r2)

\* C1: in every reachable state, whatever the interleaving of submitVote
\* calls and whether the cache answers, is stale or is down, the store holds
\* at most one ballot for any (instance, voter-token-hash) pair.
C1_OneBallotPerVoter ==
    \A b1, b2 \in ballots :
        (b1.instanceId = b2.instanceId /\ b1.voterTokenHash = b2.voterTokenHash) => b1 = b2

\* C1's case: with the cache down or stale, a second call of a voter whose
\* ballot is stored reached the INSERT and was stopped by the constraint.
C1_Witness ==
    \E r \in Requests :
        /\ Done(r) /\ req[r].outcome = "500 IntegrityError"
        /\ \E b \in ballots : b.instanceId = req[r].pollId
                               /\ b.voterTokenHash = req[r].voterHash /\ b.id # r

\* C2 (as claimed): when two submitVote calls for the same (instance,
\* identity) run concurrently and both pass the cache fast-path checks,
\* exactly one returns ok and the other ends with the 409 'Already voted'
\* rejection, never a raw storage error. Stated for the behaviours in which
\* the cache answers every call, so that no response is lost to the cache.
C2_ConcurrentDuplicateRelabelled ==
    cacheMode = "up" =>
      \A r1, r2 \in Requests :
        (/\ r1 # r2 /\ SamePair(r1, r2) /\ Concurrent(r1, r2)
         /\ Done(r1) /\ Done(r2) /\ PassedFastPath(r1) /\ PassedFastPath(r2))
        => \/ req[r1].outcome = "ok" /\ req[r2].outcome = "409 Already voted"
           \/ req[r2].outcome = "ok" /\ req[r1].outcome = "409 Already voted"

\* C3 (as claimed, its cache-unavailable half): submitting a valid vote for
\* the same (instance, identity) twice in sequence yields ok on the first
\* call and a duplicate ('already voted') rejection on the second.
C3_SequentialDuplicateRejected ==
    cacheMode = "down" =>
      \A r1, r2 \in Requests :
        (Repeats(r1, r2) /\ Done(r1) /\ Done(r2))
        => /\ req[r1].outcome = "ok"
           /\ req[r2].outcome \in {"409 Already voted", "409 Already voted from this network"}

\* ---------------------------------------------------------------- Spec
\* The lifecycle of the instances: rollover, votes, the close job, and the
\* administrative close, snapshot and replace.

\* the ballots already stored for instance 1 when the behaviour starts
SeedBallots(n) ==
    {VoteBallot(MaxRequests + k, 1, MaxRequests + k, MaxRequests + k,
                NewRequest.rankedChoices[1]) : k \in 1..n}

\* and their rankings
SeedRankings(n) ==
    UNION {rankingRows(MaxRequests + k, NewRequest.rankedChoices) : k \in 1..n}

\* steps 1-5 of a submitVote call that carries a freshly minted identity from
\* an address no other call used: no key of the cache matches it, so it
\* reaches step 6 whatever the cache answers
submitVote_admitted(r, pollId) ==
    /\ req[r].pc = "new"
    /\ \A q \in Requests : q < r => req[q].pc # "new"
    /\ req' = [req EXCEPT ![r] =
                 [NewRequest EXCEPT !.pc = "load", !.pollId = pollId, !.voterHash = r,
                                    !.ipHash = r]]
    /\ UNCHANGED <<tallyVars, lifeVars, storeVars, cacheVars>>

Init ==
    /\ \E pollType \in {"SINGLE", "RANKED"} :
          templates = {PollTemplate("t1", "RANKED", TRUE), PollTemplate("t2", pollType, TRUE)}
    /\ plans = {}
    /\ instances = {PollInstance(1, "t1", 1, "RANKED", "OPEN")}
    /\ ballots = SeedBallots(minVotes)
    /\ pendingBallots = {}
    /\ snapshots = {}
    /\ nextId = 2
    /\ closer = IdleCloser
    /\ tallied = {}
    /\ tallyCall = IdleTally
    /\ resultsCache = {}
    /\ reads = [g \in Readers |-> NewRead]
    /\ upserts = [u \in Upserters |-> NewUpsert]
    /\ rollovers = [k \in Runners |-> NewRun]
    /\ rankings = SeedRankings(minVotes)
    /\ cacheMode = "up"
    /\ rl = [key \in VotePollIds \X (1..MaxIps) |-> 0]
    /\ voted = {}
    /\ votedIp = {}
    /\ idem = {}
    /\ req = [r \in Requests |-> NewRequest]

instanceIds == {i.id : i \in instances}
LateVotes == 1..MaxLateVotes

Next ==
    \/ \E r \in LateVotes, p \in VotePollIds : submitVote_admitted(r, p)
    \/ \E r \in LateVotes : submitVote_load(r)
    \/ \E r \in LateVotes : submitVote_flush(r)
    \/ \E r \in LateVotes : submitVote_commit(r)
    \/ \E r \in LateVotes : submitVote_markVoted(r)
    \/ \E r \in LateVotes : submitVote_markVotedByIp(r)
    \/ \E r \in LateVotes : submitVote_bust(r)
    \/ \E d \in Dates : ensureInstancesForDate(d)
    \/ \E t \in Days : runCloseJob(t)
    \/ runCloseJob_sweep
    \/ \E d \in Dates : closePolls(d)
    \/ \E p \in instanceIds : closeAndSnapshot_upsert(p)
    \/ closeAndSnapshot_update
    \/ closeAndSnapshot_return

Spec == Init /\ [][Next]_vars

\* ----------------------------------------------------------- SpecAdmin
\* The operations that write an instance's status, side by side: rollover,
\* the close job, and the administrative close, snapshot and replace.

NextAdmin ==
    \/ \E d \in Dates : ensureInstancesForDate(d)
    \/ \E t \in Days : runCloseJob(t)
    \/ runCloseJob_sweep
    \/ \E d \in Dates : closePolls(d)
    \/ \E p \in instanceIds : closeAndSnapshot_upsert(p)
    \/ closeAndSnapshot_update
    \/ closeAndSnapshot_return
    \/ \E p \in instanceIds : closeInstance(p)
    \/ \E p \in instanceIds : createInstanceSnapshot(p)
    \/ \E p \in instanceIds : replaceInstance(p)

SpecAdmin == Init /\ [][NextAdmin]_vars

\* -------------------------------------------------------- SpecRollover
\* Rollover alone, while the templates are switched on and off and the
\* second template is planned, skipped and planned again for each date.

InitRollover ==
    /\ templates = {PollTemplate("t1", "RANKED", TRUE), PollTemplate("t2", "SINGLE", TRUE)}
    /\ plans = {}
    /\ instances = {}
    /\ ballots = {}
    /\ pendingBallots = {}
    /\ snapshots = {}
    /\ nextId = 1
    /\ closer = IdleCloser
    /\ tallied = {}
    /\ tallyCall = IdleTally
    /\ resultsCache = {}
    /\ reads = [g \in Readers |-> NewRead]
    /\ upserts = [u \in Upserters |-> NewUpsert]
    /\ rollovers = [k \in Runners |-> NewRun]
    /\ rankings = {}
    /\ cacheMode = "up"
    /\ rl = [key \in VotePollIds \X (1..MaxIps) |-> 0]
    /\ voted = {}
    /\ votedIp = {}
    /\ idem = {}
    /\ req = [r \in Requests |-> NewRequest]

NextRollover ==
    \/ \E d \in Dates : ensureInstancesForDate(d)
    \/ \E t \in {"t1", "t2"}, isActive \in BOOLEAN : setTemplateActive(t, isActive)
    \/ \E d \in Dates, isEnabled \in BOOLEAN : upsertPlan("t2", d, isEnabled)

SpecRollover == InitRollover /\ [][NextRollover]_vars

\* --------------------------------------------------- claims on Spec

hasSnapshot(pollId) == \E s \in snapshots : s.instanceId = pollId

\* the instances that a step flips from OPEN to CLOSED
flippedByStep == {i \in instances : i.status = "OPEN"
                                     /\ [i EXCEPT !.status = "CLOSED"] \in instances'}

\* C4 (as claimed): for every instance closed by closeAndSnapshotForDate or
\* closeAndSnapshotBeforeDate, the frozen snapshot tally counts exactly the
\* ballots persisted for that instance: no ballot for it is committed after
\* its snapshot was computed.
C4_SnapshotCountsPersistedBallots ==
    \A i \in instances : i.status = "CLOSED" =>
        \A s \in snapshots :
            s.instanceId = i.id => s.totalBallots = Cardinality(ballotsOf(i.id))

C6_SnapshotsBeforeFlip ==
    [][(/\ closer.pc = "snap" /\ closer.fn = ForDate /\ closer'.pc = "return"
        /\ \E i \in flippedByStep : i.pollDate = closer.date)
       => closer.selected \subseteq {x[1] : x \in closer.counted}]_vars

\* C6's case: a closeAndSnapshotForDate run that selected several instances
\* wrote a snapshot and flipped them.
C6_Witness ==
    /\ closer.pc = "return" /\ closer.fn = ForDate /\ ~closer.raised
    /\ closer.closedCount >= 2 /\ closer.snapCount >= 1

\* C7 (as claimed): when a closeAndSnapshotForDate(d) call ends, every
\* instance whose open date is d is CLOSED, closedCount is the number of
\* instances it flipped, snapCount the number of snapshots it wrote, and the
\* instances of every other date are as they were.
C7_ForDateClosesItsDate ==
    [][(closer.pc = "snap" /\ closer.fn = ForDate /\ closer'.pc = "return")
       => /\ \A i \in instances' : i.pollDate = closer.date => i.status = "CLOSED"
          /\ closer'.closedCount = Cardinality(flippedByStep)
          /\ closer'.snapCount = Cardinality(snapshots' \ snapshots)
          /\ \A i \in instances : i.pollDate # closer.date => i \in instances']_vars

\* C8 (as claimed): when a close job (runCloseJob) is over, every instance
\* with an open date before the job's day is CLOSED, whether or not its own
\* day's run missed it, and none with a later open date was touched.
C8_SweepClosesEveryOlderInstance ==
    [][(/\ closer.pc = "snap" /\ closer.job = "runCloseJob" /\ closer'.pc = "return"
        /\ (closer.fn = BeforeDate \/ closer'.raised))
       => /\ \A i \in instances' : i.pollDate < closer.easternToday => i.status = "CLOSED"
          /\ \A i \in instances : i.pollDate >= closer.easternToday => i \in instances']_vars

\* ---------------------------------------------- claims on SpecAdmin

\* C9: an instance's status changes only from OPEN to CLOSED and at most
\* once: no step of the close job, the administrative close, replace,
\* snapshot or rollover leaves a row with the id of a CLOSED instance in
\* another status, and closing a CLOSED instance is answered 409 and
\* changes neither the instances nor the snapshots.
C9_ClosedStaysClosed ==
    [][\A i \in instances : i.status = "CLOSED" =>
          /\ \A j \in instances' : j.id = i.id => j.status = "CLOSED"
          /\ closeInstanceResult(i.id).code = "409"
          /\ closeInstanceResult(i.id).instances = instances
          /\ closeInstanceResult(i.id).snapshots = snapshots]_vars

\* C9's case: a close call ran over the date of an instance that was CLOSED
\* already and flipped nothing.
C9_Witness ==
    /\ closer.pc = "return" /\ ~closer.raised /\ closer.closedCount = 0
    /\ \E i \in instances : i.status = "CLOSED"
                             /\ matchesDate(closer.fn, i.pollDate, closer.date)

\* ------------------------------------------- claims on SpecRollover

\* C10: rollover is idempotent: from any state, when ensureInstancesForDate(d)
\* is called twice in a row, the second call returns createdCount = 0 and
\* leaves the instances exactly as the first call left them, with no two
\* instances for the same (template, d).
C10_RolloverIdempotent ==
    \A d \in Dates :
        LET r1 == ensureInstances(instances, nextId, d)
            r2 == ensureInstances(r1.instances, r1.nextId, d)
        IN ~r1.raised =>
             /\ ~r2.raised
             /\ r2.createdCount = 0
             /\ r2.instances = r1.instances
             /\ \A i, j \in r2.instances :
                    (i.pollDate = d /\ uq_pollInstances_template_date(i, j)) => i = j

\* C10's case: a rollover has created the instances of a date, and the call
\* that follows finds nothing to create.
C10_Witness ==
    \E d \in Dates :
        /\ Cardinality({i \in instances : i.pollDate = d}) >= 2
        /\ ensureInstances(instances, nextId, d).createdCount = 0

\* the instances of a template for a date among `insts`
instancesFor(insts, templateId, pollDate) ==
    {i \in insts : i.templateId = templateId /\ i.pollDate = pollDate}

\* C11: from any state, when ensureInstancesForDate(d) completes, every
\* active template that has no disabled plan for d has exactly one instance
\* for (template, d), the returned count is the number of instances the call
\* created, and no instance was created for an inactive template.
C11_OneInstancePerActiveTemplate ==
    \A d \in Dates :
        LET res == ensureInstances(instances, nextId, d)
            created == res.instances \ instances
        IN ~res.raised =>
             /\ \A t \in templates :
                    (t.isActive /\ ~\E p \in plans : /\ p.templateId = t.id /\ p.pollDate = d
                                                      /\ ~p.isEnabled)
                    => Cardinality(instancesFor(res.instances, t.id, d)) = 1
             /\ res.createdCount = Cardinality(created)
             /\ \A i \in created : \E t \in templates : t.id = i.templateId /\ t.isActive

\* C11's case: a rollover of a date ran while one template was inactive: the
\* active template has its instance for the date, the inactive one has none.
C11_Witness ==
    \E d \in Dates : \E t, u \in templates :
        /\ t.isActive /\ ~u.isActive
        /\ instancesFor(instances, t.id, d) # {}
        /\ instancesFor(instances, u.id, d) = {}
        /\ ensureInstances(instances, nextId, d).createdCount = 0

\* C12: from any state, ensureInstancesForDate(d) creates no instance for a
\* template whose plan for d has isEnabled = False and counts only what it
\* created, and a plan for another date has no effect: an active template
\* whose only disabled plans are for other dates has its instance for d
\* after the call.
C12_DisabledPlanSkipsItsDate ==
    \A d \in Dates :
        LET res == ensureInstances(instances, nextId, d)
            created == res.instances \ instances
        IN /\ \A t \in templates :
                 (\E p \in plans : p.templateId = t.id /\ p.pollDate = d /\ ~p.isEnabled)
                 => instancesFor(created, t.id, d) = {}
           /\ res.createdCount = Cardinality(created)
           /\ \A t \in templates :
                 (/\ t.isActive
                  /\ \A p \in plans : (p.templateId = t.id /\ ~p.isEnabled) => p.pollDate # d)
                 => instancesFor(res.instances, t.id, d) # {}

\* C12's case: a rollover of a date skipped the template whose plan for the
\* date is disabled and created the other template's instance, and the
\* skipped template has its instance for another date.
C12_Witness ==
    \E d, e \in Dates : \E t, u \in templates :
        /\ d # e /\ t.isActive /\ u.isActive
        /\ \E p \in plans : p.templateId = t.id /\ p.pollDate = d /\ ~p.isEnabled
        /\ instancesFor(instances, t.id, d) = {}
        /\ instancesFor(instances, u.id, d) # {}
        /\ instancesFor(instances, t.id, e) # {}

\* ---------------------------------------------------------------------------
\* tally.py: irvTally(ballots, optionIds)
\* ---------------------------------------------------------------------------

\* the place of an option id in ascending string order
optionIdOrder(optionId) ==
    CHOOSE i \in 1..Len(sortedOptionIds) : sortedOptionIds[i] = optionId

\* sorted(...) applied to a collection of option ids, in reverse
sortedDescending(optionIdSet) ==
    [i \in 1..Cardinality(optionIdSet) |->
        CHOOSE o \in optionIdSet :
            Cardinality({x \in optionIdSet : optionIdOrder(x) > optionIdOrder(o)}) = i - 1]

\* sorted(...) applied to a collection of option ids: ascending string order
sorted(optionIdSet) ==
    [i \in 1..Cardinality(optionIdSet) |->
        CHOOSE o \in optionIdSet :
            Cardinality({x \in optionIdSet : optionIdOrder(x) < optionIdOrder(o)}) = i - 1]

\* the ballot's first-ranked option only, whatever was eliminated
selectedFirstRanked(ranking, remaining) ==
    IF Len(ranking) > 0 /\ ranking[1] \in remaining THEN ranking[1] ELSE None

\* for optionId in ranking: if optionId in remaining: selected = optionId; break
selected(ranking, remaining) ==
    LET at == {i \in 1..Len(ranking) : ranking[i] \in remaining}
    IN IF at = {} THEN None
       ELSE ranking[CHOOSE i \in at : \A j \in at : i <= j]

\* the counting loop, with the exhausted counter never incremented
countRoundNoExhausted(ballotRankings, remaining) ==
    [totals |-> [o \in remaining |->
                    Cardinality({b \in 1..Len(ballotRankings) :
                                    selected(ballotRankings[b], remaining) = o})],
     exhausted |-> 0]

\* one pass over the ballots: totals[selected] += 1 or exhausted += 1, then
\* totals.setdefault(optionId, 0) for every remaining option
countRound(ballotRankings, remaining) ==
    [totals |-> [o \in remaining |->
                    Cardinality({b \in 1..Len(ballotRankings) :
                                    selected(ballotRankings[b], remaining) = o})],
     exhausted |-> Cardinality({b \in 1..Len(ballotRankings) :
                                    selected(ballotRankings[b], remaining) = None})]

\* sum(totals[o] for o in remaining)
RECURSIVE sumTotals(_, _)
sumTotals(totals, remaining) ==
    IF remaining = {} THEN 0
    ELSE LET o == CHOOSE x \in remaining : TRUE
         IN totals[o] + sumTotals(totals, remaining \ {o})

\* a majority test that only a unanimous option passes
hasAllVotes(votes, activeVotes) == votes = activeVotes

\* totals[optionId] > activeVotes / 2
hasMajority(votes, activeVotes) == 2 * votes > activeVotes

\* an entry of `rounds` with the rounds numbered from 0
roundRecordFromZero(roundNumber, totals, eliminated, exhausted) ==
    [round |-> roundNumber - 1, totals |-> totals, eliminated |-> eliminated,
     exhausted |-> exhausted]

\* an entry of `rounds`
roundRecord(roundNumber, totals, eliminated, exhausted) ==
    [round |-> roundNumber, totals |-> totals, eliminated |-> eliminated,
     exhausted |-> exhausted]

\* the last round, reusing the totals of the round before instead of re-tallying
finalRoundStale(ballotRankings, remaining, roundNumber, rounds) ==
    LET lastCandidate == CHOOSE o \in remaining : TRUE
        before == rounds[Len(rounds)]
        finalTotals == [o \in remaining |-> before.totals[o]]
        activeVotes == sumTotals(finalTotals, remaining)
        record == roundRecord(roundNumber, finalTotals, None, before.exhausted)
    IN IF activeVotes = 0
       THEN [winnerOptionId |-> None, rounds |-> Append(rounds, record)]
       ELSE IF hasMajority(finalTotals[lastCandidate], activeVotes)
       THEN [winnerOptionId |-> lastCandidate, rounds |-> Append(rounds, record)]
       ELSE [winnerOptionId |-> None, rounds |-> Append(rounds, record)]

\* if len(remaining) == 1: the re-tally with the last candidate only
finalRound(ballotRankings, remaining, roundNumber, rounds) ==
    LET lastCandidate == CHOOSE o \in remaining : TRUE
        final == countRound(ballotRankings, remaining)
        finalTotals == final.totals
        activeVotes == sumTotals(finalTotals, remaining)
        record == roundRecord(roundNumber, finalTotals, None, final.exhausted)
    IN IF activeVotes = 0
       THEN [winnerOptionId |-> None, rounds |-> Append(rounds, record)]
       ELSE IF hasMajority(finalTotals[lastCandidate], activeVotes)
       THEN [winnerOptionId |-> lastCandidate, rounds |-> Append(rounds, record)]
       ELSE [winnerOptionId |-> None, rounds |-> Append(rounds, record)]

\* the body of `while True`, one turn per recursion
RECURSIVE irvRounds(_, _, _, _)
irvRounds(ballotRankings, remaining, roundNumber, rounds) ==
    LET counted == countRound(ballotRankings, remaining)
        totals == counted.totals
        activeVotes == sumTotals(totals, remaining)
        winners == {o \in remaining : hasMajority(totals[o], activeVotes)}
        fewest == CHOOSE n \in {totals[o] : o \in remaining} :
                      \A o \in remaining : n <= totals[o]
        eliminated == sorted({o \in remaining : totals[o] = fewest})[1]
        left == remaining \ {eliminated}
        withRound == Append(rounds, roundRecord(roundNumber, totals, eliminated,
                                                counted.exhausted))
    IN IF activeVotes = 0
       THEN [winnerOptionId |-> None,
             rounds |-> Append(rounds, roundRecord(roundNumber, totals, None,
                                                   counted.exhausted))]
       ELSE IF winners # {}
       THEN [winnerOptionId |-> CHOOSE o \in winners : TRUE,
             rounds |-> Append(rounds, roundRecord(roundNumber, totals, None,
                                                   counted.exhausted))]
       ELSE IF Cardinality(left) = 1
       THEN finalRound(ballotRankings, left, roundNumber + 1, withRound)
       ELSE irvRounds(ballotRankings, left, roundNumber + 1, withRound)

\* a tally that gives the win to the option with the most votes of round 1
irvTallyPlurality(ballotRankings, optionIds) ==
    LET counted == countRound(ballotRankings, optionIds)
        most == {o \in optionIds : \A x \in optionIds :
                    counted.totals[x] <= counted.totals[o]}
    IN [winnerOptionId |-> IF most = {} THEN None ELSE sorted(most)[1],
        rounds |-> <<roundRecord(1, counted.totals, None, counted.exhausted)>>]

\* irvTally(ballots, optionIds): remaining = set(optionIds), rounds = [],
\* the first turn of the loop is round 1
irvTally(ballotRankings, optionIds) ==
    irvRounds(ballotRankings, optionIds, 1, <<>>)

\* the rankings a ballot can hold: options in preference order, none twice
Rankings ==
    {r \in UNION {[1..n -> OptionIds] : n \in 0..Cardinality(OptionIds)} :
        \A i, j \in 1..Len(r) : r[i] = r[j] => i = j}

\* a number for each ranking, to list ballots in one order only
RECURSIVE rankingCode(_)
rankingCode(ranking) ==
    IF Len(ranking) = 0 THEN 0
    ELSE rankingCode(SubSeq(ranking, 1, Len(ranking) - 1)) * (Cardinality(OptionIds) + 1)
         + optionIdOrder(ranking[Len(ranking)])

MaxBallots == 4

\* the ballot lists given to a tally: the loops over `ballots` only add to
\* counters, so each collection of ballots is drawn in one order
RECURSIVE BallotListsOfLen(_)
BallotListsOfLen(n) ==
    IF n = 0 THEN {<<>>}
    ELSE UNION {{Append(bs, r) :
                    r \in {x \in Rankings :
                              n = 1 \/ rankingCode(bs[n - 1]) <= rankingCode(x)}} :
                bs \in BallotListsOfLen(n - 1)}

BallotLists == UNION {BallotListsOfLen(n) : n \in 0..MaxBallots}

\* a results function is a pure function: the store, the cache and the jobs
\* take no part in its call
NoBackend ==
    /\ templates = {}
    /\ plans = {}
    /\ instances = {}
    /\ ballots = {}
    /\ pendingBallots = {}
    /\ snapshots = {}
    /\ nextId = 1
    /\ closer = IdleCloser
    /\ tallied = {}
    /\ cacheMode = "up"
    /\ rl = [key \in VotePollIds \X (1..MaxIps) |-> 0]
    /\ voted = {}
    /\ votedIp = {}
    /\ idem = {}
    /\ req = [r \in Requests |-> NewRequest]
    /\ resultsCache = {}
    /\ reads = [g \in Readers |-> NewRead]
    /\ upserts = [u \in Upserters |-> NewUpsert]
    /\ rollovers = [k \in Runners |-> NewRun]
    /\ rankings = {}

InitIrv ==
    /\ NoBackend
    /\ \E bs \in BallotLists : \E optionIds \in SUBSET OptionIds :
          tallyCall = [pc |-> "call", fn |-> "irvTally", ballots |-> bs,
                       optionIds |-> optionIds]

\* tally = irvTally(ballots=ballots, optionIds=optionIds)
irvTally_call ==
    /\ tallyCall.pc = "call"
    /\ tallyCall.fn = "irvTally"
    /\ tallyCall' = [pc |-> "return", fn |-> "irvTally", ballots |-> tallyCall.ballots,
                     optionIds |-> tallyCall.optionIds,
                     result |-> irvTally(tallyCall.ballots, tallyCall.optionIds)]
    /\ UNCHANGED <<storeVars, lifeVars, cacheVars, req, resultsCache, reads, upserts, rankings, rollovers>>

NextIrv == irvTally_call

SpecIrv == InitIrv /\ [][NextIrv]_vars

\* the call of irvTally has returned
irvReturned == tallyCall.pc = "return" /\ tallyCall.fn = "irvTally"

\* the round records of the returned tally
irvRoundsOf == tallyCall.result.rounds

\* C13: in every round record irvTally returns, the tallies of the round's
\* active options plus its exhausted count add up to the number of ballots.
C13_RoundAccountsForEveryBallot ==
    irvReturned =>
        \A k \in 1..Len(irvRoundsOf) :
            LET rec == irvRoundsOf[k]
            IN sumTotals(rec.totals, DOMAIN rec.totals) + rec.exhausted
               = Len(tallyCall.ballots)

\* C13's case: a tally of several rounds in which some ballots are counted for
\* an option and others are exhausted.
C13_Witness ==
    /\ irvReturned
    /\ Len(irvRoundsOf) >= 2
    /\ \E k \in 1..Len(irvRoundsOf) :
          /\ irvRoundsOf[k].exhausted > 0
          /\ \E o \in DOMAIN irvRoundsOf[k].totals : irvRoundsOf[k].totals[o] > 0

\* the votes of the first round that went to an option
firstRoundActiveVotes ==
    sumTotals(irvRoundsOf[1].totals, DOMAIN irvRoundsOf[1].totals)

\* C14: if an option's tally in the first round is more than half of the
\* first round's active votes, irvTally returns that option as the winner
\* with exactly one round record, whose eliminated field is null.
C14_FirstRoundMajorityWins ==
    irvReturned =>
        \A o \in DOMAIN irvRoundsOf[1].totals :
            2 * irvRoundsOf[1].totals[o] > firstRoundActiveVotes
            => /\ tallyCall.result.winnerOptionId = o
               /\ Len(irvRoundsOf) = 1
               /\ irvRoundsOf[1].eliminated = None

\* C14's case: an option won the first round with a majority while another
\* option also had votes.
C14_Witness ==
    /\ irvReturned
    /\ \E o, x \in DOMAIN irvRoundsOf[1].totals :
          /\ o # x
          /\ irvRoundsOf[1].totals[x] > 0
          /\ 2 * irvRoundsOf[1].totals[o] > firstRoundActiveVotes
    /\ tallyCall.result.winnerOptionId # None

\* C15: the option a round eliminates is an active option of that round with
\* the minimum tally, and among the options tied at the minimum it is the
\* first in ascending string order of the option ids.
C15_EliminatesLowestThenSmallestId ==
    irvReturned =>
        \A k \in 1..Len(irvRoundsOf) :
            LET rec == irvRoundsOf[k]
            IN rec.eliminated # None =>
                 /\ rec.eliminated \in DOMAIN rec.totals
                 /\ \A o \in DOMAIN rec.totals :
                       /\ rec.totals[rec.eliminated] <= rec.totals[o]
                       /\ rec.totals[o] = rec.totals[rec.eliminated]
                          => optionIdOrder(rec.eliminated) <= optionIdOrder(o)

\* C15's case: a round eliminated one of two options tied at the minimum while
\* a third option had more votes.
C15_Witness ==
    /\ irvReturned
    /\ \E k \in 1..Len(irvRoundsOf) :
          LET rec == irvRoundsOf[k]
          IN /\ rec.eliminated # None
             /\ \E o, x \in DOMAIN rec.totals :
                   /\ o # rec.eliminated /\ x # rec.eliminated
                   /\ rec.totals[o] = rec.totals[rec.eliminated]
                   /\ rec.totals[x] > rec.totals[rec.eliminated]

\* the ballots of the call that rank the option anywhere
ballotsRanking(optionId) ==
    {b \in 1..Len(tallyCall.ballots) :
        \E i \in 1..Len(tallyCall.ballots[b]) : tallyCall.ballots[b][i] = optionId}

\* C16: when a round's elimination leaves exactly one active option, irvTally
\* adds one more round that re-tallies with only that option active (every
\* ballot ranking it counts for it, the others are exhausted, nothing is
\* eliminated) and ends; the option is the winner only if that tally is more
\* than half of the recomputed active votes, otherwise the winner is null.
C16_LastOptionReTallied ==
    irvReturned =>
        \A k \in 1..Len(irvRoundsOf) :
            LET rec == irvRoundsOf[k]
                left == DOMAIN rec.totals \ {rec.eliminated}
            IN (rec.eliminated # None /\ Cardinality(left) = 1) =>
                 LET lastCandidate == CHOOSE o \in left : TRUE
                     final == irvRoundsOf[k + 1]
                 IN /\ Len(irvRoundsOf) = k + 1
                    /\ final.round = rec.round + 1
                    /\ DOMAIN final.totals = left
                    /\ final.totals[lastCandidate]
                       = Cardinality(ballotsRanking(lastCandidate))
                    /\ final.exhausted
                       = Len(tallyCall.ballots) - Cardinality(ballotsRanking(lastCandidate))
                    /\ final.eliminated = None
                    /\ tallyCall.result.winnerOptionId =
                          IF 2 * final.totals[lastCandidate]
                                > sumTotals(final.totals, DOMAIN final.totals)
                          THEN lastCandidate ELSE None

\* C16's case: eliminations left one option, and the re-tally gave it votes
\* it did not have in the round before and made it the winner.
C16_Witness ==
    /\ irvReturned
    /\ Len(irvRoundsOf) >= 2
    /\ LET rec == irvRoundsOf[Len(irvRoundsOf) - 1]
           final == irvRoundsOf[Len(irvRoundsOf)]
       IN /\ rec.eliminated # None
          /\ Cardinality(DOMAIN final.totals) = 1
          /\ \E o \in DOMAIN final.totals :
                /\ final.totals[o] > rec.totals[o]
                /\ tallyCall.result.winnerOptionId = o

\* the ballots of the call counted for an option when `active` are the options
\* still in the race: the option is ranked, and nothing ranked above it is active
countedFor(optionId, active) ==
    {b \in 1..Len(tallyCall.ballots) :
        \E i \in 1..Len(tallyCall.ballots[b]) :
            /\ tallyCall.ballots[b][i] = optionId
            /\ \A j \in 1..(i - 1) : tallyCall.ballots[b][j] \notin active}

\* the ballots of the call that rank no option of `active`
exhaustedAmong(active) ==
    {b \in 1..Len(tallyCall.ballots) :
        \A i \in 1..Len(tallyCall.ballots[b]) : tallyCall.ballots[b][i] \notin active}

\* C17: the first round's active options are optionIds and every later
\* round's are those of the round before without the eliminated one; in every
\* round each ballot counts once, for its highest-ranked option that is still
\* active, or as exhausted when it ranks none of them.
C17_BallotCountsForHighestActive ==
    irvReturned =>
        \A k \in 1..Len(irvRoundsOf) :
            LET rec == irvRoundsOf[k]
                active == DOMAIN rec.totals
            IN /\ active = IF k = 1 THEN tallyCall.optionIds
                           ELSE DOMAIN irvRoundsOf[k - 1].totals
                                \ {irvRoundsOf[k - 1].eliminated}
               /\ \A o \in active : rec.totals[o] = Cardinality(countedFor(o, active))
               /\ rec.exhausted = Cardinality(exhaustedAmong(active))

\* C17's case: after an elimination one ballot moved to its next-ranked
\* active option and another, ranking no active option any more, became
\* exhausted.
C17_Witness ==
    /\ irvReturned
    /\ \E k \in 2..Len(irvRoundsOf) :
          LET before == irvRoundsOf[k - 1]
              rec == irvRoundsOf[k]
          IN /\ \E o \in DOMAIN rec.totals : rec.totals[o] > before.totals[o]
             /\ rec.exhausted > before.exhausted

\* ---------------------------------------------------------------------------
\* resultsService.py: buildSingleResults(db, instanceId, optionIds, optionLabelById)
\* ---------------------------------------------------------------------------

\* the options of an instance in display order: sorted(instance.options,
\* key=sortOrder), each id once, whatever the string order of the ids
OptionLists ==
    {l \in UNION {[1..n -> OptionIds] : n \in 0..Cardinality(OptionIds)} :
        \A i, j \in 1..Len(l) : l[i] = l[j] => i = j}

\* the firstChoiceOptionId column of the instance's ballots: submitVote stores
\* rankedChoices[0], which it has checked to be an option of the instance
FirstChoiceLists(optionIds) ==
    UNION {[1..n -> {optionIds[i] : i \in 1..Len(optionIds)}] : n \in 0..MaxBallots}

\* the grouped rows with every count(...) read as 1
rowsUncounted(firstChoices) ==
    {<<firstChoices[b], 1>> : b \in 1..Len(firstChoices)}

\* select firstChoiceOptionId, count(id) ... group by firstChoiceOptionId
rows(firstChoices) ==
    {<<firstChoices[b],
       Cardinality({c \in 1..Len(firstChoices) : firstChoices[c] = firstChoices[b]})>> :
        b \in 1..Len(firstChoices)}

\* countsByOptionId: 0 for every option, then the count of the option's row
countsByOptionId(firstChoices, optionIds) ==
    [oid \in {optionIds[i] : i \in 1..Len(optionIds)} |->
        IF \E row \in rows(firstChoices) : row[1] = oid
        THEN (CHOOSE row \in rows(firstChoices) : row[1] = oid)[2]
        ELSE 0]

\* totalVotes += int(count), for the rows of an option of the instance
RECURSIVE sumCounts(_, _)
sumCounts(rowSet, optionIds) ==
    IF rowSet = {} THEN 0
    ELSE LET row == CHOOSE x \in rowSet : TRUE
         IN (IF \E i \in 1..Len(optionIds) : optionIds[i] = row[1] THEN row[2] ELSE 0)
            + sumCounts(rowSet \ {row}, optionIds)

\* optionIds.index(optionId)
index(optionIds, optionId) ==
    CHOOSE i \in 1..Len(optionIds) : optionIds[i] = optionId

\* a sort key that breaks ties by the option id instead of the display order
sortKeyByIdBefore(counts, optionIds, a, b) ==
    \/ counts[a] > counts[b]
    \/ counts[a] = counts[b] /\ optionIdOrder(a) < optionIdOrder(b)

\* key=lambda r: (-r["count"], optionIds.index(r["optionId"])): a sorts before b
sortKeyBefore(counts, optionIds, a, b) ==
    \/ counts[a] > counts[b]
    \/ counts[a] = counts[b] /\ index(optionIds, a) < index(optionIds, b)

\* buildSingleResults: totalVotes and the sorted results (the labels, copied
\* from optionLabelById, are left out)
buildSingleResults(firstChoices, optionIds) ==
    LET counts == countsByOptionId(firstChoices, optionIds)
        oids == DOMAIN counts
    IN [totalVotes |-> sumCounts(rows(firstChoices), optionIds),
        results |->
            [i \in 1..Len(optionIds) |->
                LET oid == CHOOSE o \in oids :
                               Cardinality({x \in oids :
                                   sortKeyBefore(counts, optionIds, x, o)}) = i - 1
                IN [optionId |-> oid, count |-> counts[oid]]]]

InitSingle ==
    /\ NoBackend
    /\ \E optionIds \in OptionLists : \E firstChoices \in FirstChoiceLists(optionIds) :
          tallyCall = [pc |-> "call", fn |-> "buildSingleResults",
                       ballots |-> firstChoices, optionIds |-> optionIds]

\* return {**base, **(await buildSingleResults(db, instance.id, optionIds, ...))}
buildSingleResults_call ==
    /\ tallyCall.pc = "call"
    /\ tallyCall.fn = "buildSingleResults"
    /\ tallyCall' = [pc |-> "return", fn |-> "buildSingleResults",
                     ballots |-> tallyCall.ballots, optionIds |-> tallyCall.optionIds,
                     result |-> buildSingleResults(tallyCall.ballots, tallyCall.optionIds)]
    /\ UNCHANGED <<storeVars, lifeVars, cacheVars, req, resultsCache, reads, upserts, rankings, rollovers>>

NextSingle == buildSingleResults_call

SpecSingle == InitSingle /\ [][NextSingle]_vars

\* the call of buildSingleResults has returned
singleReturned == tallyCall.pc = "return" /\ tallyCall.fn = "buildSingleResults"

\* the results list of the returned single-choice tally
singleResults == tallyCall.result.results

\* the sum of the counts of the first n entries of a results list
RECURSIVE sumOfCounts(_, _)
sumOfCounts(results, n) ==
    IF n = 0 THEN 0 ELSE results[n].count + sumOfCounts(results, n - 1)

\* C18: for any ballots of a SINGLE instance, the counts of the single-choice
\* tally add up to totalVotes, totalVotes is the number of ballots, every
\* option of the instance is reported once with the number of ballots that
\* chose it, and an option no ballot chose is reported with count 0.
C18_SingleCountsSumToBallots ==
    singleReturned =>
        /\ sumOfCounts(singleResults, Len(singleResults)) = tallyCall.result.totalVotes
        /\ tallyCall.result.totalVotes = Len(tallyCall.ballots)
        /\ \A i \in 1..Len(tallyCall.optionIds) :
              \E j \in 1..Len(singleResults) :
                 /\ singleResults[j].optionId = tallyCall.optionIds[i]
                 /\ \A k \in 1..Len(singleResults) :
                       singleResults[k].optionId = tallyCall.optionIds[i] => k = j
                 /\ singleResults[j].count =
                       Cardinality({b \in 1..Len(tallyCall.ballots) :
                                       tallyCall.ballots[b] = tallyCall.optionIds[i]})

\* C18's case: a tally of several ballots in which one option has more than
\* one ballot and another option has none.
C18_Witness ==
    /\ singleReturned
    /\ \E j, k \in 1..Len(singleResults) :
          /\ singleResults[j].count > 1
          /\ singleResults[k].count = 0
    /\ tallyCall.result.totalVotes > 2

\* C19: the single-choice results are in descending order of count, and
\* options with equal counts are in their display order (the order of
\* optionIds, ascending sortOrder), whatever their ids.
C19_SortedByCountThenDisplayOrder ==
    singleReturned =>
        \A j, k \in 1..Len(singleResults) :
            j < k =>
              \/ singleResults[j].count > singleResults[k].count
              \/ /\ singleResults[j].count = singleResults[k].count
                 /\ index(tallyCall.optionIds, singleResults[j].optionId)
                    < index(tallyCall.optionIds, singleResults[k].optionId)

\* C19's case: two options tied, the one displayed first has the greater id
\* and is listed first, and an option with more votes is listed before both
\* although it is displayed after them.
C19_Witness ==
    /\ singleReturned
    /\ Len(singleResults) = 3
    /\ singleResults[1].count > singleResults[2].count
    /\ singleResults[2].count = singleResults[3].count
    /\ singleResults[2].count > 0
    /\ optionIdOrder(singleResults[2].optionId) > optionIdOrder(singleResults[3].optionId)
    /\ index(tallyCall.optionIds, singleResults[1].optionId) = 3

\* ---------------------------------------------------------------------------
\* publicRoutes.py: submitVote against instances that are missing or closed
\* ---------------------------------------------------------------------------

\* the poll ids a vote can name: ids of instances and ids no instance has
PollIds == 1..MaxInstances

NextLoad ==
    \/ \E r \in Requests, p \in PollIds : submitVote_admitted(r, p)
    \/ \E r \in Requests : submitVote_load(r)
    \/ \E r \in Requests : submitVote_flush(r)
    \/ \E r \in Requests : submitVote_commit(r)
    \/ \E r \in Requests : submitVote_markVoted(r)
    \/ \E r \in Requests : submitVote_markVotedByIp(r)
    \/ \E r \in Requests : submitVote_bust(r)
    \/ \E p \in instanceIds : closeInstance(p)

SpecLoad == Init /\ [][NextLoad]_vars

\* the ballot rows, committed or flushed, written by call r
ballotsWrittenBy(r) == {b \in ballots \cup pendingBallots : b.id = r}

\* C20: a submitVote call that loads an instance id no instance has ends with
\* "Poll not found", one that loads an instance whose status is not OPEN ends
\* with "Poll is closed", and a call that ended either way has written no
\* ballot (and so no ranking).
C20_MissingOrClosedRejected ==
    /\ [][\A r \in Requests :
            (req[r].pc = "load" /\ req'[r] # req[r]) =>
              LET found == instanceById(req[r].pollId)
              IN /\ found = {} =>
                      req'[r].pc = "done" /\ req'[r].outcome = "404 Poll not found"
                 /\ (\E i \in found : i.status # "OPEN") =>
                      req'[r].pc = "done" /\ req'[r].outcome = "409 Poll is closed"
                 /\ (found = {} \/ \E i \in found : i.status # "OPEN") =>
                      /\ ballots' = ballots
                      /\ pendingBallots' = pendingBallots]_vars
    /\ [](\A r \in Requests :
            (Done(r) /\ req[r].outcome \in {"404 Poll not found", "409 Poll is closed"})
            => ballotsWrittenBy(r) = {})

\* C20's case: one call was rejected for an id no instance has and another
\* for an instance that was closed, while the closed instance has ballots.
C20_Witness ==
    \E r, q \in Requests :
        /\ Done(r) /\ req[r].outcome = "404 Poll not found"
        /\ instanceById(req[r].pollId) = {}
        /\ Done(q) /\ req[q].outcome = "409 Poll is closed"
        /\ \E i \in instanceById(req[q].pollId) : i.status = "CLOSED"
        /\ ballotsOf(req[q].pollId) # {}

\* ---------------------------------------------------------------------------
\* publicRoutes.py: submitVote, the validation of the payload
\* ---------------------------------------------------------------------------

\* an option id that belongs to no instance of the model
ForeignOptionId == "X"

\* VoteInput.rankedChoices: list[str] = Field(min_length=1)
RankedChoices ==
    UNION {[1..n -> OptionIds \cup {ForeignOptionId}] : n \in 1..Cardinality(OptionIds)}

\* a call with a fresh identity and address, admitted by steps 1-5, that
\* carries the payload rankedChoices
submitVote_payload(r, pollId, rankedChoices) ==
    /\ req[r].pc = "new"
    /\ \A q \in Requests : q < r => req[q].pc # "new"
    /\ req' = [req EXCEPT ![r] =
                 [NewRequest EXCEPT !.pc = "load", !.pollId = pollId, !.voterHash = r,
                                    !.ipHash = r, !.rankedChoices = rankedChoices]]
    /\ UNCHANGED <<tallyVars, lifeVars, storeVars, cacheVars>>

InitValidate ==
    /\ \E pollType \in {"SINGLE", "RANKED"} :
          /\ templates = {PollTemplate("t1", "RANKED", TRUE),
                          PollTemplate("t2", pollType, TRUE)}
          /\ instances = {PollInstance(1, "t1", 1, "RANKED", "OPEN"),
                          PollInstance(2, "t2", 1, pollType, "OPEN")}
    /\ plans = {}
    /\ ballots = {}
    /\ pendingBallots = {}
    /\ snapshots = {}
    /\ nextId = 3
    /\ closer = IdleCloser
    /\ tallied = {}
    /\ tallyCall = IdleTally
    /\ resultsCache = {}
    /\ reads = [g \in Readers |-> NewRead]
    /\ upserts = [u \in Upserters |-> NewUpsert]
    /\ rollovers = [k \in Runners |-> NewRun]
    /\ rankings = {}
    /\ cacheMode = "up"
    /\ rl = [key \in VotePollIds \X (1..MaxIps) |-> 0]
    /\ voted = {}
    /\ votedIp = {}
    /\ idem = {}
    /\ req = [r \in Requests |-> NewRequest]

NextValidate ==
    \/ \E r \in LateVotes, p \in instanceIds, c \in RankedChoices :
          submitVote_payload(r, p, c)
    \/ \E r \in LateVotes : submitVote_load(r)
    \/ \E r \in LateVotes : submitVote_flush(r)
    \/ \E r \in LateVotes : submitVote_commit(r)
    \/ \E r \in LateVotes : submitVote_markVoted(r)
    \/ \E r \in LateVotes : submitVote_markVotedByIp(r)
    \/ \E r \in LateVotes : submitVote_bust(r)

SpecValidate == InitValidate /\ [][NextValidate]_vars

\* the payload is one the instance accepts: no id twice, every id an option of
\* the instance, one choice on a SINGLE poll, on a RANKED poll at least two
\* and at most maxRank when maxRank is set
acceptable(rankedChoices, instance) ==
    /\ \A i, j \in 1..Len(rankedChoices) : rankedChoices[i] = rankedChoices[j] => i = j
    /\ \A i \in 1..Len(rankedChoices) : rankedChoices[i] \in OptionIds
    /\ instance.pollType = "SINGLE" => Len(rankedChoices) = 1
    /\ instance.pollType = "RANKED" =>
          /\ Len(rankedChoices) >= 2
          /\ maxRankOf(instance) # IncrNone => Len(rankedChoices) <= maxRankOf(instance)

\* the rejection names a rule the payload does break
truthful(detail, rankedChoices, instance) ==
    \/ /\ detail = "422 Duplicate optionIds in rankedChoices"
       /\ \E i, j \in 1..Len(rankedChoices) : i # j /\ rankedChoices[i] = rankedChoices[j]
    \/ /\ detail = "422 Invalid optionId for this poll"
       /\ \E i \in 1..Len(rankedChoices) : rankedChoices[i] \notin OptionIds
    \/ /\ detail = "422 SINGLE polls require exactly 1 choice"
       /\ instance.pollType = "SINGLE" /\ Len(rankedChoices) # 1
    \/ /\ detail = "422 Too many ranked choices for this poll"
       /\ instance.pollType = "RANKED" /\ maxRankOf(instance) # IncrNone
       /\ Len(rankedChoices) > maxRankOf(instance)
    \/ /\ detail = "422 RANKED polls require at least 2 ranked choices"
       /\ instance.pollType = "RANKED" /\ Len(rankedChoices) < 2

\* C21: a submitVote call that reads an OPEN instance goes on to write its
\* ballot only if its payload is acceptable; any other payload ends the call
\* with the reason of a rule it breaks, and nothing is written; every ballot
\* ever written by a call carries an acceptable payload.
C21_OnlyValidPayloadsPersist ==
    /\ [][\A r \in Requests :
            (req[r].pc = "load" /\ req'[r] # req[r]
               /\ \E i \in instanceById(req[r].pollId) : i.status = "OPEN") =>
              LET instance == CHOOSE i \in instanceById(req[r].pollId) : TRUE
              IN IF acceptable(req[r].rankedChoices, instance)
                 THEN req'[r].pc = "flush"
                 ELSE /\ req'[r].pc = "done"
                      /\ truthful(req'[r].outcome, req[r].rankedChoices, instance)
                      /\ ballots' = ballots
                      /\ pendingBallots' = pendingBallots]_vars
    /\ [](\A r \in Requests :
            /\ ballotsWrittenBy(r) # {} =>
                  \E i \in instanceById(req[r].pollId) :
                      acceptable(req[r].rankedChoices, i)
            /\ (Done(r) /\ \E i \in instanceById(req[r].pollId) :
                               truthful(req[r].outcome, req[r].rankedChoices, i))
               => ballotsWrittenBy(r) = {})

\* C21's case: a call that ranked three options of a RANKED instance whose
\* maxRank is 2 was rejected for ranking too many, and wrote nothing.
C21_Witness ==
    \E r \in Requests :
        /\ Done(r)
        /\ req[r].outcome = "422 Too many ranked choices for this poll"
        /\ \A i \in 1..Len(req[r].rankedChoices) : req[r].rankedChoices[i] \in OptionIds
        /\ ballotsWrittenBy(r) = {}

\* ---------------------------------------------------------------------------
\* abuse.py: rateLimit, within one window and with the cache available
\* ---------------------------------------------------------------------------

InitRate == InitVote /\ cacheMode = "up"

\* the calls of one rate-limit window: the bucket index does not change
NextRate ==
    \/ \E r \in Requests, p \in VotePollIds, k \in IdempotencyKeys :
          \E v \in voterChoices, a \in ipChoices : getVoterIdentityOrSetCookie(r, p, v, a, k)
    \/ \E r \in Requests : submitVote_rateLimit(r)
    \/ \E r \in Requests : submitVote_idempotency(r)
    \/ \E r \in Requests : submitVote_hasVoted(r)
    \/ \E r \in Requests : submitVote_hasVotedByIp(r)
    \/ \E r \in Requests : submitVote_load(r)
    \/ \E r \in Requests : submitVote_flush(r)
    \/ \E r \in Requests : submitVote_commit(r)
    \/ \E r \in Requests : submitVote_markVoted(r)
    \/ \E r \in Requests : submitVote_markVotedByIp(r)
    \/ \E r \in Requests : submitVote_bust(r)

SpecRate == InitRate /\ [][NextRate]_vars

\* call r was rejected by the rate-limit step
rateLimited(r) == Done(r) /\ req[r].outcome = "429 Too many attempts"

\* the calls for (pollId, ipHash) that went past the rate-limit step
proceeded(pollId, ipHash) ==
    {r \in Requests : /\ req[r].pc \notin {"new", "rateLimit"}
                      /\ req[r].pollId = pollId /\ req[r].ipHash = ipHash
                      /\ ~rateLimited(r)}

\* C22: with the cache available and within one rate-limit window, at most
\* `limit` submitVote calls for one (instance, ip hash) go past the rate-limit
\* step, in any interleaving; a call rejected as rate limited has written
\* nothing, and its rejection step reads and writes no row.
C22_AtMostLimitPerWindow ==
    /\ [](\A p \in VotePollIds, a \in 1..MaxIps :
            Cardinality(proceeded(p, a)) <= limit)
    /\ [](\A r \in Requests : rateLimited(r) => ballotsWrittenBy(r) = {})
    /\ [][\A r \in Requests :
            (req[r].pc = "rateLimit" /\ req'[r] # req[r]) =>
              /\ rl[<<req[r].pollId, req[r].ipHash>>] >= limit
                    => req'[r].pc = "done" /\ req'[r].outcome = "429 Too many attempts"
              /\ storeVars' = storeVars]_vars

\* C22's case: of two calls from one address for one instance, one went past
\* the rate limit and stored its ballot, the other was rejected as rate limited.
C22_Witness ==
    \E r, q \in Requests :
        /\ r # q
        /\ req[r].pollId = req[q].pollId /\ req[r].ipHash = req[q].ipHash
        /\ Done(r) /\ req[r].outcome = "ok"
        /\ rateLimited(q)

\* call r is the only call made with its identity for its instance
firstTime(r) ==
    \A q \in Requests :
        (q # r /\ req[q].pc # "new") =>
            ~(req[q].pollId = req[r].pollId /\ req[q].voterHash = req[r].voterHash)

\* C23: a first-time valid submission on an OPEN instance stores its ballot
\* and is answered ok when the cache is unavailable at every step, and when
\* the cache is unavailable at some steps a call that stored its ballot is
\* answered ok.
C23_CacheOutageNeverAbortsVote ==
    cacheMode # "up" =>
        \A r \in Requests :
            (/\ Done(r) /\ firstTime(r)
             /\ \E i \in instanceById(req[r].pollId) : i.status = "OPEN"
             /\ cacheMode = "down" \/ \E b \in ballots : b.id = r)
            => /\ req[r].outcome = "ok"
               /\ \E b \in ballots : b.id = r

\* call r2 repeats call r1: same instance, identity and idempotency key, made
\* after r1 was answered, r1 having reached the idempotency step
repeatsKey(r1, r2) ==
    /\ r1 # r2 /\ r1 \in req[r2].after
    /\ req[r1].pollId = req[r2].pollId /\ req[r1].voterHash = req[r2].voterHash
    /\ req[r1].idempotencyKey # None
    /\ req[r1].idempotencyKey = req[r2].idempotencyKey
    /\ ~rateLimited(r1)

\* C24: inside the idempotency TTL, a call that repeats an earlier call's
\* (instance, identity, idempotency key) is answered ok as a duplicate
\* request, writes nothing, and is not answered with a rejection.
C24_RepeatedKeyReturnsOk ==
    \A r1, r2 \in Requests :
        (repeatsKey(r1, r2) /\ Done(r2))
        => /\ req[r2].outcome = "ok deduped"
           /\ ballotsWrittenBy(r2) = {}

\* ---------------------------------------------------------------------------
\* publicRoutes.py: getResults(pollId), step by step
\* ---------------------------------------------------------------------------

\* buildResults(db, pollId) as a payload: the status copied from the instance
\* and the ballots the tally counted
liveResults(pollId) ==
    IF instanceById(pollId) = {} THEN [source |-> "live", found |-> FALSE]
    ELSE [source |-> "live", found |-> TRUE,
          status |-> (CHOOSE i \in instanceById(pollId) : TRUE).status,
          counted |-> {b.id : b \in ballotsOf(pollId)}]

\* snap.resultsJson: what the snapshot row stores
snapshotResults(snap) == [source |-> "snapshot", row |-> snap]

EndRead(g, outcome, cached, data) ==
    reads' = [reads EXCEPT ![g].pc = "done", ![g].outcome = outcome,
                           ![g].cached = cached, ![g].data = data]

\* the call arrives; it starts after the votes already answered ok
getResults_start(g, pollId) ==
    /\ reads[g].pc = "new"
    /\ \A h \in Readers : h < g => reads[h].pc # "new"
    /\ reads' = [reads EXCEPT ![g].pc = "instance", ![g].pollId = pollId,
                    ![g].after = {r \in Requests : Done(r) /\ req[r].outcome = "ok"}]
    /\ UNCHANGED <<tallyCall, upserts, rankings, rollovers, resultsCache, storeVars, lifeVars, cacheVars, req>>

\* the first read, sending every call to the cache whatever the status
getResults_instanceAnyStatus(g) ==
    /\ reads[g].pc = "instance"
    /\ LET found == instanceById(reads[g].pollId)
       IN IF found = {}
          THEN EndRead(g, "404 Poll not found", FALSE, reads[g].data)
          ELSE reads' = [reads EXCEPT ![g].status = (CHOOSE i \in found : TRUE).status,
                                      ![g].pc = "cache"]
    /\ UNCHANGED <<tallyCall, upserts, rankings, rollovers, resultsCache, storeVars, lifeVars, cacheVars, req>>

\* select(PollInstance); 404 when missing; CLOSED goes to the snapshot
getResults_instance(g) ==
    /\ reads[g].pc = "instance"
    /\ LET found == instanceById(reads[g].pollId)
       IN IF found = {}
          THEN EndRead(g, "404 Poll not found", FALSE, reads[g].data)
          ELSE LET status == (CHOOSE i \in found : TRUE).status
               IN reads' = [reads EXCEPT ![g].status = status,
                               ![g].pc = IF status = "CLOSED" THEN "snapshot" ELSE "cache"]
    /\ UNCHANGED <<tallyCall, upserts, rankings, rollovers, resultsCache, storeVars, lifeVars, cacheVars, req>>

\* select(PollResultSnapshot); if snap: return {"cached": True, "data": snap.resultsJson}
getResults_snapshot(g) ==
    /\ reads[g].pc = "snapshot"
    /\ LET snap == {x \in snapshots : x.instanceId = reads[g].pollId}
       IN IF snap # {}
          THEN EndRead(g, "200", TRUE, snapshotResults(CHOOSE x \in snap : TRUE))
          ELSE reads' = [reads EXCEPT ![g].pc = "build"]
    /\ UNCHANGED <<tallyCall, upserts, rankings, rollovers, resultsCache, storeVars, lifeVars, cacheVars, req>>

\* cached = await redisClient.get(cacheKey): the bare client raises when the
\* cache is unavailable
getResults_cache(g) ==
    /\ reads[g].pc = "cache"
    /\ \E up \in Answers :
         LET hit == {e \in resultsCache : e.pollId = reads[g].pollId}
         IN IF ~up THEN EndRead(g, "500 ConnectionError", FALSE, reads[g].data)
            ELSE IF hit # {}
            THEN EndRead(g, "200", TRUE, (CHOOSE e \in hit : TRUE).data)
            ELSE reads' = [reads EXCEPT ![g].pc = "build"]
    /\ UNCHANGED <<tallyCall, upserts, rankings, rollovers, resultsCache, storeVars, lifeVars, cacheVars, req>>

\* data = await buildResults(db, pollId); the CLOSED fallback returns it
getResults_build(g) ==
    /\ reads[g].pc = "build"
    /\ IF reads[g].status = "CLOSED"
       THEN EndRead(g, "200", FALSE, liveResults(reads[g].pollId))
       ELSE reads' = [reads EXCEPT ![g].pc = "set", ![g].data = liveResults(reads[g].pollId)]
    /\ UNCHANGED <<tallyCall, upserts, rankings, rollovers, resultsCache, storeVars, lifeVars, cacheVars, req>>

\* await redisClient.set(cacheKey, json.dumps(data), ex=10); return
getResults_set(g) ==
    /\ reads[g].pc = "set"
    /\ \E up \in Answers :
         IF up
         THEN /\ resultsCache' = {e \in resultsCache : e.pollId # reads[g].pollId}
                                 \cup {[pollId |-> reads[g].pollId, data |-> reads[g].data]}
              /\ EndRead(g, "200", FALSE, reads[g].data)
         ELSE /\ UNCHANGED resultsCache
              /\ EndRead(g, "500 ConnectionError", FALSE, reads[g].data)
    /\ UNCHANGED <<tallyCall, upserts, rankings, rollovers, storeVars, lifeVars, cacheVars, req>>

\* the 10 s of a results key run out
ExpireResults ==
    /\ \E e \in resultsCache : resultsCache' = resultsCache \ {e}
    /\ UNCHANGED <<tallyCall, upserts, rankings, rollovers, reads, storeVars, lifeVars, cacheVars, req>>

NextResults ==
    \/ \E r \in LateVotes, p \in VotePollIds : submitVote_admitted(r, p)
    \/ \E r \in LateVotes : submitVote_load(r)
    \/ \E r \in LateVotes : submitVote_flush(r)
    \/ \E r \in LateVotes : submitVote_commit(r)
    \/ \E r \in LateVotes : submitVote_markVoted(r)
    \/ \E r \in LateVotes : submitVote_markVotedByIp(r)
    \/ \E r \in LateVotes : submitVote_bust(r)
    \/ \E g \in Readers, p \in VotePollIds : getResults_start(g, p)
    \/ \E g \in Readers : getResults_instance(g)
    \/ \E g \in Readers : getResults_snapshot(g)
    \/ \E g \in Readers : getResults_cache(g)
    \/ \E g \in Readers : getResults_build(g)
    \/ \E g \in Readers : getResults_set(g)
    \/ ExpireResults
    \/ \E p \in instanceIds : closeInstance(p)

InitResults == Init /\ PollTemplate("t2", "SINGLE", TRUE) \in templates

SpecResults == InitResults /\ [][NextResults]_vars

\* getResults call g has returned a payload
answered(g) == reads[g].pc = "done" /\ reads[g].outcome = "200"

\* C25: a getResults call that reads its instance as CLOSED and finds the
\* instance's snapshot returns the payload stored in that snapshot row and
\* leaves the cache alone, whatever the cache holds and whatever ballots the
\* instance has; only a call that read its instance as OPEN puts a payload in
\* the cache, and that payload is computed live.
C25_ClosedServedFromSnapshot ==
    /\ [][\A g \in Readers :
            (reads[g].pc = "snapshot" /\ reads'[g] # reads[g]
               /\ \E x \in snapshots : x.instanceId = reads[g].pollId) =>
              /\ answered(g)'
              /\ reads'[g].data.source = "snapshot"
              /\ reads'[g].data.row \in snapshots
              /\ reads'[g].data.row.instanceId = reads[g].pollId
              /\ resultsCache' = resultsCache]_vars
    /\ [](\A g \in Readers :
            (answered(g) /\ reads[g].status = "CLOSED"
               /\ \E x \in snapshots : x.instanceId = reads[g].pollId)
            => reads[g].data.source = "snapshot")
    /\ [][\A e \in resultsCache' \ resultsCache :
            /\ e.data.source = "live"
            /\ \E g \in Readers : /\ reads[g].pc = "set" /\ reads[g].status = "OPEN"
                                  /\ reads[g].pollId = e.pollId
                                  /\ reads[g].data = e.data]_vars

\* C25's case: a CLOSED instance was served from its snapshot while the cache
\* held a live payload for it and a ballot stored after the snapshot was
\* taken is not among those the snapshot counted.
C25_Witness ==
    \E g \in Readers :
        /\ answered(g) /\ reads[g].status = "CLOSED"
        /\ reads[g].data.source = "snapshot"
        /\ \E e \in resultsCache : e.pollId = reads[g].pollId
        /\ Cardinality(ballotsOf(reads[g].pollId)) > reads[g].data.row.totalBallots

\* C30: a getResults call that starts after a submitVote call for an OPEN
\* instance was answered ok returns results that count that call's ballot.
C30_ResultsIncludeAnsweredVotes ==
    \A g \in Readers :
        (answered(g) /\ reads[g].data.source = "live")
        => \A r \in reads[g].after :
              req[r].pollId = reads[g].pollId => r \in reads[g].data.counted

\* ---------------------------------------------------------------------------
\* snapshotService.py: upsertResultSnapshot calls side by side (close job,
\* interim snapshot, regenerate), each in its own transaction
\* ---------------------------------------------------------------------------

\* the constraint switched off
uqSnapshotsOff(snaps, instanceId) == FALSE

\* UniqueConstraint("instanceId", name="uq_pollResultSnapshots_instance"):
\* a row of `snaps` already holds the instance
uq_pollResultSnapshots_instance(snaps, instanceId) ==
    \E x \in snaps : x.instanceId = instanceId

\* the rows inserted by other transactions and not yet committed
pendingSnapshots(u) ==
    UNION {upserts[v].inserts : v \in {w \in Upserters : w # u /\ upserts[w].pc = "commit"}}

\* success = await upsertResultSnapshot(db, instanceId): results built, the
\* existing row selected, the new row added to the session or the existing
\* one changed in it; nothing is sent to the database yet
upsertResultSnapshot_call(u, pollId) ==
    /\ upserts[u].pc = "new"
    /\ \A v \in Upserters : v < u => upserts[v].pc # "new"
    /\ LET up == upsertResultSnapshot(pollId, u)
       IN upserts' = [upserts EXCEPT ![u] =
             IF up.raised
             THEN [NewUpsert EXCEPT !.pc = "done", !.pollId = pollId, !.raised = TRUE]
             ELSE [NewUpsert EXCEPT !.pc = "flush", !.pollId = pollId, !.ok = up.ok,
                      !.inserts = IF up.deletes = {} THEN up.writes ELSE {},
                      !.updates = IF up.deletes = {} THEN {} ELSE up.writes,
                      !.deletes = up.deletes]]
    /\ UNCHANGED <<tallyCall, resultsCache, reads, rankings, rollovers, storeVars, lifeVars, cacheVars, req>>

\* the flush: the INSERT waits for an uncommitted row of the same instance and
\* is refused by the unique constraint when a committed row holds it; the
\* UPDATE and the DELETE go to the row selected
upsertResultSnapshot_flush(u) ==
    /\ upserts[u].pc = "flush"
    /\ ~\E x \in upserts[u].inserts :
          uq_pollResultSnapshots_instance(pendingSnapshots(u), x.instanceId)
    /\ upserts' = [upserts EXCEPT ![u] =
          IF \E x \in upserts[u].inserts :
                uq_pollResultSnapshots_instance(snapshots, x.instanceId)
          THEN [@ EXCEPT !.pc = "done", !.raised = TRUE, !.ok = FALSE, !.inserts = {}]
          ELSE [@ EXCEPT !.pc = "commit"]]
    /\ UNCHANGED <<tallyCall, resultsCache, reads, rankings, rollovers, storeVars, lifeVars, cacheVars, req>>

\* await db.commit()
upsertResultSnapshot_commit(u) ==
    /\ upserts[u].pc = "commit"
    /\ snapshots' = {x \in snapshots : \A y \in upserts[u].deletes : y.id # x.id}
                    \cup upserts[u].updates \cup upserts[u].inserts
    /\ upserts' = [upserts EXCEPT ![u].pc = "done"]
    /\ UNCHANGED <<tallyCall, resultsCache, reads, rankings, rollovers, storeVars, cacheVars, req,
                   templates, plans, nextId, closer, tallied>>

NextSnapshot ==
    \/ \E u \in Upserters, p \in instanceIds \cup {nextId} : upsertResultSnapshot_call(u, p)
    \/ \E u \in Upserters : upsertResultSnapshot_flush(u)
    \/ \E u \in Upserters : upsertResultSnapshot_commit(u)
    \/ \E i \in instances : ensureInstancesForDate(i.pollDate)

SpecSnapshot == Init /\ [][NextSnapshot]_vars

\* C26: in every state there is at most one snapshot row per instance,
\* whatever the interleaving of the transactions that upsert it.
C26_OneSnapshotPerInstance ==
    \A x, y \in snapshots : x.instanceId = y.instanceId => x = y

\* C26's case: two transactions both found no snapshot of the instance and
\* both added one; one committed its row and the other was refused, and a
\* third found the row and updated it.
C26_Witness ==
    \E u, v, w \in Upserters :
        /\ upserts[u].pollId = upserts[v].pollId /\ upserts[u].pollId = upserts[w].pollId
        /\ upserts[u].pc = "done" /\ upserts[u].ok /\ upserts[u].inserts # {}
        /\ upserts[v].pc = "done" /\ upserts[v].raised
        /\ upserts[w].pc = "done" /\ upserts[w].updates # {}
        /\ \E x \in snapshots : x.instanceId = upserts[u].pollId

\* the instance exists and has at least minVotes committed ballots
enoughBallots(pollId) ==
    instanceById(pollId) # {} /\ Cardinality(ballotsOf(pollId)) >= minVotes

\* C27: upsertResultSnapshot returns true for every existing instance, SINGLE
\* or RANKED, with at least minVotes ballots, returns false for a missing
\* instance or one with fewer ballots, and never raises.
C27_UpsertReturnsWithoutRaising ==
    [][\A u \in Upserters, p \in instanceIds \cup {nextId} :
          upsertResultSnapshot_call(u, p) =>
              /\ ~upserts'[u].raised
              /\ upserts'[u].ok <=> enoughBallots(p)]_vars

\* the close engine call has raised to its caller
closeFailed(c) == c.pc = "return" /\ c.raised

\* the instances that became CLOSED in the step
closedInStep(before, after) ==
    {i.id : i \in {j \in after : j.status = "CLOSED" /\ j \notin before}}

\* C28: a closeAndSnapshotForDate or closeAndSnapshotBeforeDate call that
\* fails leaves no instance CLOSED and no snapshot written: the step that
\* raises changes neither table and drops what the call had pending, and the
\* only step of a call that changes a table is its last one, which returns
\* its counts.
C28_FailedCloseLeavesPriorState ==
    /\ [][(closer.pc = "snap" /\ closeFailed(closer')) =>
             /\ instances' = instances
             /\ snapshots' = snapshots
             /\ closer'.writes = {} /\ closer'.deletes = {}]_vars
    /\ [][(snapshots' # snapshots \/ closedInStep(instances, instances') # {}) =>
             /\ closer.pc = "snap" /\ closer'.pc = "return"
             /\ ~closer'.raised]_vars

\* C28's case: the call on a date with a RANKED instance that has its
\* minVotes ballots and an instance whose snapshot raises has failed; the
\* RANKED instance is OPEN as before and no snapshot is stored.
C28_Witness ==
    /\ closeFailed(closer)
    /\ \E i, j \in instances :
          /\ i.pollType = "RANKED" /\ i.status = "OPEN"
          /\ matchesDate(closer.fn, i.pollDate, closer.date)
          /\ enoughBallots(i.id)
          /\ j.pollType = "SINGLE" /\ j.status = "OPEN"
          /\ matchesDate(closer.fn, j.pollDate, closer.date)
    /\ snapshots = {}

\* ---------------------------------------------------------------------------
\* rollover.py and the multi-day migration: the close date of an instance
\* ---------------------------------------------------------------------------

\* a pollInstances row that was given no closeDate
NoDate == 0

\* pollTemplates.durationDays: 1 by the column's server default, t2 set to 2
durationDays(templateId) == IF templateId = "t2" THEN 2 ELSE 1

\* the closeDate of the row that ensureInstancesForDate adds: PollInstance(...)
\* names id, templateId, categoryId, pollDate, title, question, pollType,
\* maxRank, audience and status, the mapped class has no closeDate, and the
\* column has no default
closeDate(instance) == NoDate

\* C29: every instance that ensureInstancesForDate(d) created has the close
\* date d plus the duration in days of its template.
C29_CloseDateIsOpenPlusDuration ==
    \A i \in instances : closeDate(i) = i.pollDate + durationDays(i.templateId)

\* ---------------------------------------------------------------------------
\* tally.py: the winner and the shape of the rounds irvTally returns
\* ---------------------------------------------------------------------------

\* the last round record of the returned tally and its active votes
irvLastRound == irvRoundsOf[Len(irvRoundsOf)]
irvLastActiveVotes == sumTotals(irvLastRound.totals, DOMAIN irvLastRound.totals)

C37_WitnessExhausted ==
    /\ irvReturned
    /\ Len(tallyCall.ballots) > 0
    /\ irvLastActiveVotes = 0
    /\ tallyCall.result.winnerOptionId = None

\* max(1, number of options)
maxRounds(optionIds) ==
    IF Cardinality(optionIds) > 1 THEN Cardinality(optionIds) ELSE 1

\* C38: irvTally returns after at most max(1, number of options) rounds,
\* numbered 1, 2, ... in order; every round but the last eliminated one
\* option of the round, all different, and only the last round has no
\* eliminated option.
C38_RoundsBoundedAndConsecutive ==
    irvReturned =>
        /\ Len(irvRoundsOf) >= 1
        /\ Len(irvRoundsOf) <= maxRounds(tallyCall.optionIds)
        /\ \A k \in 1..Len(irvRoundsOf) :
              /\ irvRoundsOf[k].round = k
              /\ irvRoundsOf[k].eliminated = None <=> k = Len(irvRoundsOf)
              /\ k < Len(irvRoundsOf) =>
                    /\ irvRoundsOf[k].eliminated \in DOMAIN irvRoundsOf[k].totals
                    /\ DOMAIN irvRoundsOf[k + 1].totals
                       = DOMAIN irvRoundsOf[k].totals \ {irvRoundsOf[k].eliminated}

\* C38's case: a tally over every option that took as many rounds as there
\* are options.
C38_Witness ==
    /\ irvReturned
    /\ tallyCall.optionIds = OptionIds
    /\ Len(irvRoundsOf) = Cardinality(OptionIds)

\* C38's edge cases: a tally over no option at all, with ballots, returned
\* after one round.
C38_WitnessNoOptions ==
    /\ irvReturned
    /\ tallyCall.optionIds = {}
    /\ Len(tallyCall.ballots) > 0
    /\ Len(irvRoundsOf) = 1

\* ---------------------------------------------------------------------------
\* tally.py: irvTally on a ballot list and an optionIds list, and on the same
\* lists in another order
\* ---------------------------------------------------------------------------

\* ballots of a tally that is made twice
MaxPermBallots == 2

\* the list without its first entry, as a set
setOfTail(optionIdList) ==
    {optionIdList[i] : i \in 2..Len(optionIdList)}

\* remaining = set(optionIds)
set(optionIdList) ==
    {optionIdList[i] : i \in 1..Len(optionIdList)}

\* the list `l` read in the order `p`
permuted(l, p) == [i \in 1..Len(l) |-> l[p[i]]]

InitPermute ==
    /\ NoBackend
    /\ \E bs \in UNION {BallotListsOfLen(n) : n \in 0..MaxPermBallots} :
          \E optionIds \in SUBSET OptionIds :
             tallyCall = [pc |-> "call", fn |-> "irvTally", ballots |-> bs,
                          optionIds |-> sorted(optionIds)]

\* irvTally(ballots, optionIds) and irvTally on the two lists in the orders
\* p and q
irvTally_permuted(p, q) ==
    /\ tallyCall.pc = "call"
    /\ tallyCall' =
          [pc |-> "return", fn |-> "irvTally", ballots |-> tallyCall.ballots,
           optionIds |-> tallyCall.optionIds,
           result |-> irvTally(tallyCall.ballots, set(tallyCall.optionIds)),
           permutedBallots |-> permuted(tallyCall.ballots, p),
           permutedOptionIds |-> permuted(tallyCall.optionIds, q),
           permutedResult |-> irvTally(permuted(tallyCall.ballots, p),
                                       set(permuted(tallyCall.optionIds, q)))]
    /\ UNCHANGED <<storeVars, lifeVars, cacheVars, req, resultsCache, reads, upserts, rankings, rollovers>>

NextPermute ==
    \E p \in Permutations(1..Len(tallyCall.ballots)) :
        \E q \in Permutations(1..Len(tallyCall.optionIds)) : irvTally_permuted(p, q)

SpecPermute == InitPermute /\ [][NextPermute]_vars

\* C39: irvTally on a permutation of the ballot list and a permutation of the
\* optionIds list returns the same winner and the same sequence of rounds
\* (number, totals, eliminated option, exhausted count).
C39_TallyIgnoresOrder ==
    tallyCall.pc = "return" =>
        /\ tallyCall.permutedResult.winnerOptionId = tallyCall.result.winnerOptionId
        /\ tallyCall.permutedResult.rounds = tallyCall.result.rounds

\* C39's case: both lists were given in another order and the tally went
\* through a tie that eliminated an option.
C39_Witness ==
    /\ tallyCall.pc = "return"
    /\ tallyCall.permutedBallots # tallyCall.ballots
    /\ tallyCall.permutedOptionIds # tallyCall.optionIds
    /\ Len(tallyCall.result.rounds) >= 2
    /\ tallyCall.result.winnerOptionId # None

\* the "status" member of a payload that getResults returned
payloadStatus(data) ==
    IF data.source = "snapshot" THEN data.row.status ELSE data.status

\* C40: a getResults call that read its instance as CLOSED returns a payload
\* whose status is CLOSED, from the snapshot or computed live, and the status
\* stored in the snapshot of a CLOSED instance is CLOSED.
C40_ClosedResultsReportClosed ==
    /\ \A g \in Readers :
          (answered(g) /\ reads[g].status = "CLOSED") =>
              payloadStatus(reads[g].data) = "CLOSED"
    /\ \A i \in instances, x \in snapshots :
          (i.status = "CLOSED" /\ x.instanceId = i.id) => x.status = "CLOSED"

\* the instance exists and has fewer than minVotes committed ballots
tooFewBallots(pollId) ==
    instanceById(pollId) # {} /\ Cardinality(ballotsOf(pollId)) < minVotes

\* C32: upsertResultSnapshot on an instance with fewer than minVotes ballots
\* returns false without raising, writes no snapshot row, deletes the
\* snapshot the instance has, and leaves instances and ballots as they were.
C32_FewVotesWritesNoSnapshot ==
    [][\A u \in Upserters, p \in instanceIds :
          (upsertResultSnapshot_call(u, p) /\ tooFewBallots(p)) =>
              /\ ~upserts'[u].raised /\ ~upserts'[u].ok
              /\ upserts'[u].inserts = {} /\ upserts'[u].updates = {}
              /\ upserts'[u].deletes = {x \in snapshots : x.instanceId = p}
              /\ instances' = instances /\ ballots' = ballots]_vars

\* ---------------------------------------------------------------------------
\* turnstile.py and step 2 of submitVote: the bot verification
\* ---------------------------------------------------------------------------

\* what the siteverify request can come to
VerifierAnswers ==
    {"200 success true", "200 success false", "200 no success member", "200 not json",
     "503", "timeout", "network error"}

\* verifyTurnstile(token, clientIp) under settings.turnstileSecretKey, by what
\* the request to the verifier came to
verifyTurnstile(turnstileSecretKey, answer) ==
    IF ~turnstileSecretKey THEN TRUE
    ELSE IF answer \in {"timeout", "network error", "200 not json"} THEN TRUE
    ELSE IF answer = "503" THEN FALSE
    ELSE answer = "200 success true"

\* the configurations, payloads and verifier answers of an arriving call: the
\* verifier answers only a call that carries a token under a configured key
TurnstileCases ==
    {[secretKey |-> k, token |-> t, answer |-> a] :
        k \in BOOLEAN, t \in BOOLEAN, a \in VerifierAnswers \cup {None}}

asked(c) == c.secretKey /\ c.token

\* steps 1 and 2 of a call with a fresh identity and address: if
\* payload.turnstileToken and not await verifyTurnstile(...): raise 403;
\* steps 3-5 then admit it
submitVote_turnstile(r, pollId, c) ==
    /\ req[r].pc = "new"
    /\ \A q \in Requests : q < r => req[q].pc # "new"
    /\ asked(c) <=> c.answer # None
    /\ LET turnstileValid == ~c.token \/ verifyTurnstile(c.secretKey, c.answer)
       IN req' = [req EXCEPT ![r] =
             [NewRequest EXCEPT !.pollId = pollId, !.voterHash = r, !.ipHash = r,
                                !.turnstile = c,
                                !.pc = IF turnstileValid THEN "load" ELSE "done",
                                !.outcome = IF turnstileValid THEN None
                                            ELSE "403 Bot verification failed"]]
    /\ UNCHANGED <<tallyVars, lifeVars, storeVars, cacheVars>>

NextTurnstile ==
    \/ \E r \in Requests, p \in VotePollIds, c \in TurnstileCases : submitVote_turnstile(r, p, c)
    \/ \E r \in Requests : submitVote_load(r)
    \/ \E r \in Requests : submitVote_flush(r)
    \/ \E r \in Requests : submitVote_commit(r)
    \/ \E r \in Requests : submitVote_markVoted(r)
    \/ \E r \in Requests : submitVote_markVotedByIp(r)
    \/ \E r \in Requests : submitVote_bust(r)

SpecTurnstile == InitRate /\ [][NextTurnstile]_vars

\* C33: with a verifier configured, a call is answered 'Bot verification
\* failed' exactly when the verifier answered its token with an explicit
\* rejection; no other answer of the verifier, and no failure to reach it,
\* rejects the call; a rejected call wrote no ballot.
C33_RejectedOnlyOnExplicitRejection ==
    \A r \in Requests :
        req[r].pc # "new" =>
            /\ req[r].outcome = "403 Bot verification failed"
               <=> (asked(req[r].turnstile) /\ req[r].turnstile.answer = "200 success false")
            /\ req[r].outcome = "403 Bot verification failed"
               => ballotsWrittenBy(r) = {}

\* ---------------------------------------------------------------------------
\* step 7 of submitVote: the ballot and its rankings
\* ---------------------------------------------------------------------------

\* the committed VoteRanking rows of a ballot
rankingsOf(ballotId) == {x \in rankings : x.ballotId = ballotId}

\* C31: every committed ballot has its rankings: their ranks are 1..n, rank k
\* holds the k-th submitted choice, no option is ranked twice, the ballot's
\* firstChoiceOptionId is the option of rank 1, and a ballot of a SINGLE
\* instance has one ranking; no ranking row exists without its ballot.
C31_BallotStoredWithItsRankings ==
    /\ \A b \in ballots :
          LET rs == rankingsOf(b.id)
              n == Cardinality(rs)
              submitted == req[b.id].rankedChoices
          IN /\ n >= 1 /\ n = Len(submitted)
             /\ {x.rank : x \in rs} = 1..n
             /\ \A x \in rs : x.optionId = submitted[x.rank]
             /\ \A x, y \in rs : x.optionId = y.optionId => x = y
             /\ \E x \in rs : x.rank = 1 /\ x.optionId = b.firstChoiceOptionId
             /\ \A i \in instanceById(b.instanceId) : i.pollType = "SINGLE" => n = 1
    /\ \A x \in rankings : \E b \in ballots : b.id = x.ballotId

\* C31's case: a ballot that ranks three options is committed.
C31_Witness ==
    \E b \in ballots :
        /\ Cardinality(rankingsOf(b.id)) = 3
        /\ \E i \in instanceById(b.instanceId) : i.pollType = "RANKED"

\* C31's other case: a ballot of a SINGLE instance is committed.
C31_WitnessSingle ==
    \E b \in ballots : \E i \in instanceById(b.instanceId) : i.pollType = "SINGLE"

\* ---------------------------------------------------------------------------
\* steps 3, 5 and 8 of submitVote around one rate-limit bucket boundary, with
\* the cache available and the 24 h markers alive
\* ---------------------------------------------------------------------------

\* the calls that have done the INCR of the counter of (pollId, ipHash)
incremented(pollId, ipHash) ==
    {r \in Requests : /\ req[r].pc \notin {"new", "rateLimit"}
                      /\ req[r].pollId = pollId /\ req[r].ipHash = ipHash}

\* int(time.time() // windowSeconds) moves to the next bucket, once: every
\* INCR made so far was counted in the bucket that ends
NextWindow_once ==
    /\ \A key \in DOMAIN rl : rl[key] = Cardinality(incremented(key[1], key[2]))
    /\ \E key \in DOMAIN rl : rl[key] > 0
    /\ NextWindow

NextStraddle ==
    \/ \E r \in Requests, p \in VotePollIds, k \in IdempotencyKeys :
          \E v \in voterChoices, a \in ipChoices : getVoterIdentityOrSetCookie(r, p, v, a, k)
    \/ \E r \in Requests : submitVote_rateLimit(r)
    \/ \E r \in Requests : submitVote_idempotency(r)
    \/ \E r \in Requests : submitVote_hasVoted(r)
    \/ \E r \in Requests : submitVote_hasVotedByIp(r)
    \/ \E r \in Requests : submitVote_load(r)
    \/ \E r \in Requests : submitVote_flush(r)
    \/ \E r \in Requests : submitVote_commit(r)
    \/ \E r \in Requests : submitVote_markVoted(r)
    \/ \E r \in Requests : submitVote_markVotedByIp(r)
    \/ \E r \in Requests : submitVote_bust(r)
    \/ NextWindow_once

SpecStraddle == InitRate /\ [][NextStraddle]_vars

\* C34: with the cache available, the store never holds two ballots of one
\* instance from one ip hash that were admitted within 24 hours, whatever the
\* identities of the calls and whether or not a bucket boundary lies between
\* them.
C34_OneBallotPerIpPerDay ==
    \A b, c \in ballots :
        (b.instanceId = c.instanceId /\ b.ipHash = c.ipHash) => b = c

\* ---------------------------------------------------------------------------
\* step 4 of submitVote and the rejections of step 6: retries with the
\* idempotency key of an earlier attempt, while the instance may be closed
\* ---------------------------------------------------------------------------

NextRetry ==
    \/ \E r \in Requests, p \in VotePollIds, k \in IdempotencyKeys :
          \E v \in voterChoices, a \in ipChoices : getVoterIdentityOrSetCookie(r, p, v, a, k)
    \/ \E r \in Requests : submitVote_rateLimit(r)
    \/ \E r \in Requests : submitVote_idempotency(r)
    \/ \E r \in Requests : submitVote_hasVoted(r)
    \/ \E r \in Requests : submitVote_hasVotedByIp(r)
    \/ \E r \in Requests : submitVote_load(r)
    \/ \E r \in Requests : submitVote_flush(r)
    \/ \E r \in Requests : submitVote_commit(r)
    \/ \E r \in Requests : submitVote_markVoted(r)
    \/ \E r \in Requests : submitVote_markVotedByIp(r)
    \/ \E r \in Requests : submitVote_bust(r)
    \/ \E p \in instanceIds : closeInstance(p)

SpecRetry == InitRate /\ [][NextRetry]_vars

\* C35: a call answered with success, deduplicated or not, has a ballot of
\* its (instance, voter token hash) in the store; a retry that carries the
\* idempotency key of a rejected attempt is not answered with success.
C35_SuccessMeansBallotStored ==
    \A r \in Requests :
        (Done(r) /\ req[r].outcome \in {"ok", "ok deduped"}) =>
            \E b \in ballots :
                b.instanceId = req[r].pollId /\ b.voterTokenHash = req[r].voterHash

\* ---------------------------------------------------------------------------
\* rollover.py: ensureInstancesForDate runs side by side (the scheduled
\* rollover and POST /admin/rollover), templates and plans standing still
\* ---------------------------------------------------------------------------

\* the ids a run mints: uuids, no two runs the same
firstIdOf(k) == nextId + 2 * (k - 1)

\* steps 1-4 of run k: the three selects and the new rows added to the
\* session; nothing is sent to the database before the commit
ensureInstancesForDate_select(k, pollDate) ==
    /\ rollovers[k].pc = "new"
    /\ \A j \in Runners : j < k => rollovers[j].pc # "new"
    /\ rollovers' = [rollovers EXCEPT ![k] =
          [NewRun EXCEPT !.pc = "commit", !.pollDate = pollDate,
                         !.created = ensureInstances(instances, firstIdOf(k),
                                                     pollDate).instances \ instances]]
    /\ UNCHANGED <<tallyCall, resultsCache, reads, upserts, rankings, storeVars, lifeVars,
                   cacheVars, req>>

\* await db.commit(): the INSERTs and the commit; a row that repeats the
\* (templateId, pollDate) of a committed row is refused and the whole
\* transaction is rolled back
ensureInstancesForDate_commit(k) ==
    /\ rollovers[k].pc = "commit"
    /\ IF \E c \in rollovers[k].created, i \in instances :
             uq_pollInstances_template_date(i, c)
          THEN /\ rollovers' = [rollovers EXCEPT ![k].pc = "done", ![k].raised = TRUE,
                                                 ![k].created = {}]
               /\ UNCHANGED instances
          ELSE /\ rollovers' = [rollovers EXCEPT ![k].pc = "done"]
               /\ instances' = instances \cup rollovers[k].created
    /\ UNCHANGED <<tallyCall, resultsCache, reads, upserts, rankings, ballots,
                   pendingBallots, lifeVars, cacheVars, req>>

\* the plans of the second template: at most one for a date
planSets == {P \in SUBSET {PollPlan("t2", d, e) : d \in Dates, e \in BOOLEAN} :
                \A x, y \in P : x.pollDate = y.pollDate => x = y}

\* any templates and plans, and the first date rolled over already for the
\* first template or not
InitConcurrent ==
    /\ \E a1, a2 \in BOOLEAN :
          templates = {PollTemplate("t1", "RANKED", a1), PollTemplate("t2", "SINGLE", a2)}
    /\ plans \in planSets
    /\ instances \in {{}, {PollInstance(1, "t1", 1, "RANKED", "OPEN")}}
    /\ nextId = Cardinality(instances) + 1
    /\ ballots = {}
    /\ pendingBallots = {}
    /\ snapshots = {}
    /\ closer = IdleCloser
    /\ tallied = {}
    /\ tallyCall = IdleTally
    /\ resultsCache = {}
    /\ reads = [g \in Readers |-> NewRead]
    /\ upserts = [u \in Upserters |-> NewUpsert]
    /\ rollovers = [k \in Runners |-> NewRun]
    /\ rankings = {}
    /\ cacheMode = "up"
    /\ rl = [key \in VotePollIds \X (1..MaxIps) |-> 0]
    /\ voted = {}
    /\ votedIp = {}
    /\ idem = {}
    /\ req = [r \in Requests |-> NewRequest]

NextConcurrent ==
    \/ \E k \in Runners, d \in Dates : ensureInstancesForDate_select(k, d)
    \/ \E k \in Runners : ensureInstancesForDate_commit(k)

SpecConcurrent == InitConcurrent /\ [][NextConcurrent]_vars

\* the runs that ended
endedRuns == {k \in Runners : rollovers[k].pc = "done"}

\* C36: when ensureInstancesForDate runs of one date overlap, the committed
\* instances hold at most one instance for a template and a date, and once a
\* run of a date has endedRuns every active template without a disabled plan
\* for that date has an instance of it
C36_ConcurrentRolloverOneEach ==
    /\ \A i, j \in instances :
          (i.templateId = j.templateId /\ i.pollDate = j.pollDate) => i = j
    /\ \A k \in endedRuns : \A t \in activeTemplates :
          ~planDisabled(t, rollovers[k].pollDate)
             => \E i \in instances : /\ i.templateId = t.id
                                      /\ i.pollDate = rollovers[k].pollDate

\* two runs of one date read before either committed; one created two
\* instances and the commit of the other was refused
C36_Witness ==
    \E j, k \in endedRuns :
        /\ j # k
        /\ rollovers[j].pollDate = rollovers[k].pollDate
        /\ rollovers[j].raised
        /\ Cardinality(rollovers[k].created) = 2

====
